---- MODULE Spec2Model ----
(***************************************************************************)
(* Travel-insurance booking backend: the Assistcard token manager, the     *)
(* issuance client, the issuance orchestrator (issuePolicy) and the quote  *)
(* snapshot service, as state machines.                                    *)
(*                                                                         *)
(* Time is counted in minutes.  A request is a process p with a program    *)
(* counter pc[p]; one action is one run of code between two awaits.        *)
(***************************************************************************)
EXTENDS Integers, Sequences, FiniteSets, TLC

(***************************************************************************)
(* Bounds of the model                                                     *)
(***************************************************************************)
\* concurrent getValidToken callers of SpecToken
NumCallers == 3
\* last minute the clock of SpecToken reaches
MaxNow == 4
\* the two validity periods (minutes) the identity provider hands out
ShortLife == 3
LongLife == 7
\* concurrent issuance requests of SpecIssue
NumRequests == 2
\* longest passenger list a modelled request carries
MaxPassengers == 2
\* error envelopes translated side by side in SpecTranslate
NumEnvelopes == 1
\* concurrent quote-service calls of SpecQuote
NumQuoteCalls == 3
\* days the clock of SpecQuote runs
MaxDays == 2
\* concurrent calls of the client auth store in SpecAuth
NumAuthCalls == 3
\* quote-service calls that run next to the issuances of SpecStore
NumStoreCalls == 1

(***************************************************************************)
(* Program constants                                                       *)
(***************************************************************************)
\* 5 * 60 * 1000 ms, in minutes
SafetyMargin == 5
\* the id of 'mock-assistcard-token'
MockTokenId == 0
\* refreshCookie: undefined
NoCookie == 0
\* findFirst found nothing (null)
NoRow == 0
\* z.array(issuePassengerSchema).min(1).max(16)
MinPassengersAllowed == 1
MaxPassengersAllowed == 16
\* 24 * 60 * 60 * 1000 ms, in minutes
QuoteTtl == 24 * 60
\* row ids: request p creates rows IdStride * p + index
IdStride == 10

VARIABLES
    useMock,        \* env.ASSISTCARD_USE_MOCK
    now,            \* wall clock, minutes
    cachedToken,    \* token-manager.ts module variable: {} (null) or {TokenCache}
    sentCookie,     \* per process: the Cookie header of its refresh request in flight
    pc,             \* per process: where it is suspended
    tokenResult,    \* per process: what getValidToken returned or threw
    user,           \* per process: req.user.id, set by requireAuth
    req,            \* per process: req.body
    quotes,         \* committed rows of table Quote
    passengers,     \* committed rows of table Passenger
    policies,       \* committed rows of table Policy
    tx,             \* per process: uncommitted writes of its $transaction
    found,          \* per process: the findFirst result per passenger index
    paxRows,        \* per process: const passengers (row ids, by index)
    resp,           \* per process: what the provider answered to the issuance call
    charged,        \* per process: the provider carried out the charge
    netCalls,       \* per process: requests sent to the provider
    log,            \* per process: records written to the logger
    result,         \* per process: the HTTP response
    store,          \* the state of the client auth store (useAuthStore)
    serverSession   \* server side: the user of the browser's session, or NoUser

tokenVars == <<cachedToken, sentCookie>>
dbVars == <<quotes, passengers, policies>>
reqVars == <<user, req>>
localVars == <<found, paxRows, resp>>
issueVars == <<reqVars, dbVars, tx, localVars, charged, log, result>>
authVars == <<store, serverSession>>
vars == <<useMock, now, cachedToken, sentCookie, pc, tokenResult,
          user, req, quotes, passengers, policies, tx, found, paxRows, resp,
          charged, netCalls, log, result, store, serverSession>>

Procs == DOMAIN pc

TokenLifetimes == {ShortLife, LongLife}

NoResult == [kind |-> "none"]

(***************************************************************************)
(* External Token Manager                                                  *)
(***************************************************************************)

\* interface TokenCache
TokenCache(token, expiresAt, refreshCookie) ==
    [token |-> token, expiresAt |-> expiresAt, refreshCookie |-> refreshCookie]

\* a bearer token: like a JWT it carries the expiry the provider states for
\* it, and it belongs to the login session that the refresh cookie names
Token(id, expiration, session) ==
    [id |-> id, expiration |-> expiration, session |-> session]
MockToken == Token(MockTokenId, 0, NoCookie)

\* the tokens the provider hands to request p: one per refresh, one per login
RefreshedTokenId(p) == 2 * p
LoginTokenId(p) == 2 * p + 1

\* new Date(expiresAt.getTime() - 5 * 60 * 1000)
safeExpiresAt(expiration) == expiration - SafetyMargin

\* what a caller of getValidToken gets back
TokenReturned(token, via) ==
    [kind |-> "token", token |-> token, at |-> now, via |-> via]
TokenThrown == [kind |-> "error", cls |-> "InternalServerError"]

\* one more request goes out to the provider on behalf of p
Sent(p) == [netCalls EXCEPT ![p] = @ + 1]

\* getValidToken without the check of the cached token
getValidTokenNoCache(p) ==
    /\ pc[p] = "callToken"
    /\ IF useMock
       THEN /\ pc' = [pc EXCEPT ![p] = "haveToken"]
            /\ tokenResult' = [tokenResult EXCEPT ![p] = TokenReturned(MockToken, "mock")]
            /\ UNCHANGED <<netCalls, sentCookie>>
       ELSE IF \E c \in cachedToken : c.refreshCookie # NoCookie
       THEN /\ pc' = [pc EXCEPT ![p] = "refreshing"]
            /\ netCalls' = Sent(p)
            /\ sentCookie' = [sentCookie EXCEPT ![p] =
                   (CHOOSE c \in cachedToken : TRUE).refreshCookie]
            /\ UNCHANGED tokenResult
       ELSE /\ pc' = [pc EXCEPT ![p] = "loggingIn"]
            /\ netCalls' = Sent(p)
            /\ UNCHANGED <<tokenResult, sentCookie>>
    /\ UNCHANGED <<useMock, authVars, now, cachedToken, issueVars>>

\* getValidToken up to its first await: mock mode, cache hit, or the refresh /
\* login request goes out
getValidToken(p) ==
    /\ pc[p] = "callToken"
    /\ IF useMock
       THEN /\ pc' = [pc EXCEPT ![p] = "haveToken"]
            /\ tokenResult' = [tokenResult EXCEPT ![p] = TokenReturned(MockToken, "mock")]
            /\ UNCHANGED <<netCalls, sentCookie>>
       ELSE IF \E c \in cachedToken : c.expiresAt > now
       THEN /\ pc' = [pc EXCEPT ![p] = "haveToken"]
            /\ tokenResult' = [tokenResult EXCEPT ![p] =
                   TokenReturned((CHOOSE c \in cachedToken : TRUE).token, "cache")]
            /\ UNCHANGED <<netCalls, sentCookie>>
       ELSE IF \E c \in cachedToken : c.refreshCookie # NoCookie
       THEN /\ pc' = [pc EXCEPT ![p] = "refreshing"]
            /\ netCalls' = Sent(p)
            /\ sentCookie' = [sentCookie EXCEPT ![p] =
                   (CHOOSE c \in cachedToken : TRUE).refreshCookie]
            /\ UNCHANGED tokenResult
       ELSE /\ pc' = [pc EXCEPT ![p] = "loggingIn"]
            /\ netCalls' = Sent(p)
            /\ UNCHANGED <<tokenResult, sentCookie>>
    /\ UNCHANGED <<useMock, authVars, now, cachedToken, issueVars>>

\* assistcardRefreshToken's response arrives and getValidToken resumes
refreshResponseRethrown(p) ==
    /\ pc[p] = "refreshing"
    /\ sentCookie' = [sentCookie EXCEPT ![p] = NoCookie]
    /\ \/ \E life \in TokenLifetimes :
            /\ cachedToken # {}
            /\ LET c == CHOOSE x \in cachedToken : TRUE
                   t == Token(RefreshedTokenId(p), now + life, sentCookie[p])
               IN /\ cachedToken' = {TokenCache(t, safeExpiresAt(t.expiration), c.refreshCookie)}
                  /\ pc' = [pc EXCEPT ![p] = "haveToken"]
                  /\ tokenResult' = [tokenResult EXCEPT ![p] = TokenReturned(t, "refresh")]
       \/ /\ pc' = [pc EXCEPT ![p] = "tokenFailed"]
          /\ tokenResult' = [tokenResult EXCEPT ![p] = TokenThrown]
          /\ UNCHANGED cachedToken
    /\ UNCHANGED <<useMock, authVars, now, netCalls, issueVars>>
refreshResponse(p) ==
    /\ pc[p] = "refreshing"
    /\ sentCookie' = [sentCookie EXCEPT ![p] = NoCookie]
    /\ \/ \* refresh succeeded and the cache is still there
          \E life \in TokenLifetimes :
            /\ cachedToken # {}
            /\ LET c == CHOOSE x \in cachedToken : TRUE
                   t == Token(RefreshedTokenId(p), now + life, sentCookie[p])
               IN /\ cachedToken' = {TokenCache(t, safeExpiresAt(t.expiration), c.refreshCookie)}
                  /\ pc' = [pc EXCEPT ![p] = "haveToken"]
                  /\ tokenResult' = [tokenResult EXCEPT ![p] = TokenReturned(t, "refresh")]
                  /\ UNCHANGED netCalls
       \/ \* refresh succeeded but another call has cleared the cache meanwhile:
          \* cachedToken.refreshCookie throws inside the try, the catch clears
          \* the cache and falls through to login
          /\ cachedToken = {}
          /\ cachedToken' = {}
          /\ pc' = [pc EXCEPT ![p] = "loggingIn"]
          /\ netCalls' = Sent(p)
          /\ UNCHANGED tokenResult
       \/ \* network error, !response.ok, !isSuccess or no data
          /\ cachedToken' = {}
          /\ pc' = [pc EXCEPT ![p] = "loggingIn"]
          /\ netCalls' = Sent(p)
          /\ UNCHANGED tokenResult
    /\ UNCHANGED <<useMock, authVars, now, issueVars>>

\* assistcardLogin's response arrives and getValidToken resumes
loginResponse(p) ==
    /\ pc[p] = "loggingIn"
    /\ \/ \E life \in TokenLifetimes, withCookie \in BOOLEAN :
            LET id == LoginTokenId(p)
                t == Token(id, now + life, id)
                cookie == IF withCookie THEN id ELSE NoCookie
            IN /\ cachedToken' = {TokenCache(t, safeExpiresAt(t.expiration), cookie)}
               /\ pc' = [pc EXCEPT ![p] = "haveToken"]
               /\ tokenResult' = [tokenResult EXCEPT ![p] = TokenReturned(t, "login")]
       \/ \* credentials rejected, or the provider is unreachable
          /\ pc' = [pc EXCEPT ![p] = "tokenFailed"]
          /\ tokenResult' = [tokenResult EXCEPT ![p] = TokenThrown]
          /\ UNCHANGED cachedToken
    /\ UNCHANGED <<useMock, authVars, now, sentCookie, netCalls, issueVars>>

\* a minute passes
Tick ==
    /\ now < MaxNow
    /\ now' = now + 1
    /\ UNCHANGED <<useMock, authVars, tokenVars, pc, tokenResult, netCalls, issueVars>>

(***************************************************************************)
(* Request validation (zod schemas, validateRequest middleware)            *)
(***************************************************************************)

\* strings are sequences of characters
TokenizedOk == <<"{", "{", "{", "t", "}", "}", "}">>
RawCard     == <<"4", "1", "1", "1">>
DoubleBrace == <<"{", "{", "t", "}", "}">>
EmptyToken  == <<"{", "{", "{", "}", "}", "}">>
TwoLines    == <<"{", "{", "{", "t", "\n", "}", "}", "}">>
Trailing    == <<"{", "{", "{", "t", "}", "}", "}", "t">>
CardSamples == {TokenizedOk, RawCard, DoubleBrace, EmptyToken, TwoLines, Trailing}
CvvSamples  == {TokenizedOk, RawCard, DoubleBrace}

Lit(ch) == [kind |-> "lit", ch |-> ch]
DotPlus == [kind |-> "dotplus"]

\* /^\{\{\{.+\}\}\}$/
tokenizedPatternDoubleBrace ==
    <<Lit("{"), Lit("{"), DotPlus, Lit("}"), Lit("}")>>
tokenizedPattern ==
    <<Lit("{"), Lit("{"), Lit("{"), DotPlus, Lit("}"), Lit("}"), Lit("}")>>

\* a backtracking match of pat[k..] against s[i..], anchored at the end ($);
\* "." matches any character but a line terminator
RECURSIVE MatchFrom(_, _, _, _)
MatchFrom(pat, k, s, i) ==
    IF k > Len(pat) THEN i = Len(s) + 1
    ELSE IF pat[k].kind = "lit"
    THEN /\ i <= Len(s)
         /\ s[i] = pat[k].ch
         /\ MatchFrom(pat, k + 1, s, i + 1)
    ELSE \E n \in 1..(Len(s) - i + 1) :
            /\ \A j \in i..(i + n - 1) : s[j] # "\n"
            /\ MatchFrom(pat, k + 1, s, i + n)

\* z.string().regex(re): anchored at the start (^)
regex(pat, s) == MatchFrom(pat, 1, s, 1)

\* paymentDetailsSchema: the paths of the fields that fail
paymentDetailsSchema(pd) ==
    {path \in {"paymentDetails.cardNumber"} : ~regex(tokenizedPattern, pd.cardNumber)}
    \cup {path \in {"paymentDetails.cvv"} : ~regex(tokenizedPattern, pd.cvv)}

\* issueVouchersRequestSchema without the Point Emisor fields: the issues of a body
requestBodySchema(body) ==
    {path \in {"passengers"} :
        \/ Len(body.passengers) < MinPassengersAllowed
        \/ Len(body.passengers) > MaxPassengersAllowed}
    \cup paymentDetailsSchema(body.paymentDetails)

(***************************************************************************)
(* Errors and the error handler                                            *)
(***************************************************************************)

\* class AppError(message, statusCode, isOperational, metadata)
AppError(cls, statusCode, isOperational, issues) ==
    [cls |-> cls, app |-> TRUE, statusCode |-> statusCode,
     isOperational |-> isOperational, issues |-> issues]
BadRequestError(issues) == AppError("BadRequestError", 400, TRUE, issues)
ForbiddenError == AppError("ForbiddenError", 403, TRUE, {})
NotFoundError == AppError("NotFoundError", 404, TRUE, {})
InternalServerError == AppError("InternalServerError", 500, FALSE, {})
\* class AssistcardApiError(message, traceId, errorCode, statusCode)
AssistcardApiError(message, traceId, errorCode, statusCode) ==
    [cls |-> "AssistcardApiError", app |-> TRUE, statusCode |-> statusCode,
     isOperational |-> TRUE, issues |-> {},
     message |-> message, traceId |-> traceId, errorCode |-> errorCode]
\* new AssistcardApiError(`Network error: ...`, 'unknown', 'NETWORK_ERROR', 503)
NetworkError == AssistcardApiError("Network error", "unknown", "NETWORK_ERROR", 503)
\* errors that are no AppError: Prisma's, zod's, TypeError, Error
PlainError(cls) ==
    [cls |-> cls, app |-> FALSE, statusCode |-> 0, isOperational |-> FALSE, issues |-> {}]

\* errorHandler: the response sent for an error
errorHandler(err) ==
    IF err.app
    THEN [kind |-> "error", cls |-> err.cls, statusCode |-> err.statusCode,
          issues |-> err.issues]
    ELSE [kind |-> "error", cls |-> err.cls, statusCode |-> 500, issues |-> {}]

\* a log record: its level and message, and the voucher groups and voucher
\* codes among its fields
LogRecord(level, msg, groups, codes) ==
    [level |-> level, msg |-> msg, groups |-> groups, codes |-> codes]

\* errorHandler: the record it logs, if any
errorHandlerLog(err) ==
    IF ~err.app \/ ~err.isOperational \/ err.statusCode >= 500
    THEN {LogRecord("error", err.cls, {}, {})}
    ELSE {}

(***************************************************************************)
(* Tables, rows and request bodies                                         *)
(***************************************************************************)

Users == <<"u1", "u2">>
Emails == {"ana@x.io"}
DocNumbers == {"D1", "D2"}
\* the contact data of the model's passengers: two spellings of the name,
\* each with its own phone
Contacts == {[name |-> "Ana", phone |-> "555-1"], [name |-> "Anna", phone |-> "555-2"]}

\* issuePassengerSchema (the fields the orchestrator keys and updates on)
PassengerInputs ==
    {[email |-> e, documentNumber |-> d, name |-> c.name, phone |-> c.phone] :
        e \in Emails, d \in DocNumbers, c \in Contacts}
FirstPassenger == CHOOSE x \in PassengerInputs : TRUE
\* the passenger lists of the model: the empty list, and FirstPassenger or any
\* other passenger followed by any passengers up to MaxPassengers in all
PassengerLists ==
    {<<>>} \cup {<<x>> : x \in PassengerInputs}
    \cup {l \in UNION {[1..n -> PassengerInputs] : n \in 2..MaxPassengers} :
             l[1] = FirstPassenger}

\* issuePolicyRequestSchema: the issuance body and the optional quoteId, NoRow
\* when the request names no snapshot
Body(pl, card, cvv) ==
    [passengers |-> pl, paymentDetails |-> [cardNumber |-> card, cvv |-> cvv],
     quoteId |-> NoRow]
\* the request bodies the model posts: every passenger list with tokenized
\* card data, and one passenger with every card sample or every cvv sample
IssueBodies ==
    {Body(pl, TokenizedOk, TokenizedOk) : pl \in PassengerLists}
    \cup {Body(<<FirstPassenger>>, card, TokenizedOk) : card \in CardSamples}
    \cup {Body(<<FirstPassenger>>, TokenizedOk, cvv) : cvv \in CvvSamples}
    \cup {Body(<<FirstPassenger>>, RawCard, RawCard)}
NoBody == Body(<<>>, <<>>, <<>>)

EmptyTx == [quotes |-> {}, created |-> {}, updated |-> {}, policies |-> {}]

\* id: uuid of a row of table Quote: one per insert, the inserting request's,
\* and one for the row that is in the store from the start
QuoteId(p) == p
StoredQuoteId == NumQuoteCalls + NumRequests + NumStoreCalls + 1
RowId(p, i) == IdStride * p + i

\* a row of table Quote.  Field "after" is a ghost: the ids of the snapshots
\* that were committed when this one was written.
Quote(id, userId, status, passengersCount) ==
    [id |-> id, userId |-> userId, status |-> status,
     passengersCount |-> passengersCount,
     createdAt |-> now, expiresAt |-> now + QuoteTtl,
     after |-> {q.id : q \in quotes}]

\* tx.quote.create({data: {..., status: 'issued', expiresAt}})
QuoteRowSaved(p) ==
    Quote(QuoteId(p), user[p], "saved", Len(req[p].passengers))
QuoteRow(p) ==
    Quote(QuoteId(p), user[p], "issued", Len(req[p].passengers))

\* tx.passenger.create({data: {...}})
PassengerRow(p, i) ==
    [id |-> RowId(p, i), email |-> req[p].passengers[i].email,
     documentNumber |-> req[p].passengers[i].documentNumber,
     firstName |-> req[p].passengers[i].name,
     phone |-> req[p].passengers[i].phone, createdById |-> user[p], by |-> p]

\* the view of a transaction whose update also writes the name of the request
PassengerViewRenamed(p) ==
    {IF \E u \in tx[p].updated : u.id = r.id
     THEN [r EXCEPT !.phone = (CHOOSE u \in tx[p].updated : u.id = r.id).phone,
                    !.firstName = req[p].passengers[
                        CHOOSE i \in DOMAIN paxRows[p] : paxRows[p][i] = r.id].name,
                    !.by = p]
     ELSE r : r \in passengers} \cup tx[p].created
\* what the open transaction of p reads of table Passenger (read committed,
\* plus its own writes)
PassengerView(p) ==
    {IF \E u \in tx[p].updated : u.id = r.id
     THEN [r EXCEPT !.phone = (CHOOSE u \in tx[p].updated : u.id = r.id).phone, !.by = p]
     ELSE r : r \in passengers} \cup tx[p].created

\* where: {email, documentNumber}
findFirstWhereEmailOnly(view, pax) ==
    {r.id : r \in {x \in view : x.email = pax.email}}
findFirstWhere(view, pax) ==
    {r.id : r \in {x \in view : x.email = pax.email
                                /\ x.documentNumber = pax.documentNumber}}

DigitChars == <<"0", "1", "2", "3", "4", "5", "6", "7", "8", "9">>
\* Number.prototype.toString of a non-negative integer
RECURSIVE toString(_)
toString(n) ==
    IF n < 10 THEN <<DigitChars[n + 1]>>
    ELSE toString(n \div 10) \o <<DigitChars[(n % 10) + 1]>>

\* tx.policy.create({data: {...}}) for voucher number i of the response
PolicyRowOwnGroup(p, i) ==
    [id |-> RowId(p, i), quoteId |-> QuoteId(p), userId |-> user[p],
     passengerId |-> paxRows[p][i],
     voucherCode |-> toString(resp[p].vouchers[i]),
     voucherGroup |-> toString(resp[p].vouchers[i]),
     paymentMethod |-> resp[p].paymentDetails.method,
     paymentReference |-> resp[p].paymentDetails.referenceNumber,
     paymentCurrencyLocal |-> resp[p].paymentDetails.currency,
     paymentTotalLocal |-> resp[p].paymentDetails.totalPaid,
     cardBrand |-> resp[p].paymentDetails.brand,
     installments |-> resp[p].paymentDetails.installments]
\* the row whose passenger is the first of the request whatever the index
PolicyRowFirstPassenger(p, i) ==
    [id |-> RowId(p, i), quoteId |-> QuoteId(p), userId |-> user[p],
     passengerId |-> paxRows[p][1],
     voucherCode |-> toString(resp[p].vouchers[i]),
     voucherGroup |-> toString(resp[p].voucherGroup),
     paymentMethod |-> resp[p].paymentDetails.method,
     paymentReference |-> resp[p].paymentDetails.referenceNumber,
     paymentCurrencyLocal |-> resp[p].paymentDetails.currency,
     paymentTotalLocal |-> resp[p].paymentDetails.totalPaid,
     cardBrand |-> resp[p].paymentDetails.brand,
     installments |-> resp[p].paymentDetails.installments]
PolicyRow(p, i) ==
    [id |-> RowId(p, i), quoteId |-> QuoteId(p), userId |-> user[p],
     passengerId |-> paxRows[p][i],
     voucherCode |-> toString(resp[p].vouchers[i]),
     voucherGroup |-> toString(resp[p].voucherGroup),
     paymentMethod |-> resp[p].paymentDetails.method,
     paymentReference |-> resp[p].paymentDetails.referenceNumber,
     paymentCurrencyLocal |-> resp[p].paymentDetails.currency,
     paymentTotalLocal |-> resp[p].paymentDetails.totalPaid,
     cardBrand |-> resp[p].paymentDetails.brand,
     installments |-> resp[p].paymentDetails.installments]

(***************************************************************************)
(* The provider's issuance endpoint                                        *)
(***************************************************************************)

MaxVouchers == MaxPassengers + 1
FirstVoucherCode == 100
\* the voucher group the provider assigns to the issuance of request p
ProviderGroup(p) == 500 + p
FreshCode(p, i) == FirstVoucherCode + IdStride * p + i
\* the voucher lists the provider may answer with: any number of vouchers,
\* with fresh codes or with a code it has handed out before
ProviderVouchers(p) ==
    {[i \in 1..n |-> FreshCode(p, i)] : n \in 0..MaxVouchers}
    \cup {[i \in 1..n |-> FirstVoucherCode] : n \in 1..MaxPassengers}
\* issue.mock.ts: one voucher per passenger, Math.random codes
MockVouchers(p) ==
    {v \in ProviderVouchers(p) : Len(v) = Len(req[p].passengers)}

NoResp == [kind |-> "none"]
\* paymentDetailsResponseSchema: the payment confirmation of one issuance; the
\* gateway reference is written with the group's digits, the total counts the
\* vouchers
PaymentConfirmation(group, vouchers) ==
    [method |-> "CreditCard", brand |-> "VISA", installments |-> Len(vouchers),
     referenceNumber |-> toString(group), currency |-> "ARS",
     totalPaid |-> Len(vouchers)]
RespOk(group, vouchers) ==
    [kind |-> "ok", voucherGroup |-> group, vouchers |-> vouchers,
     paymentDetails |-> PaymentConfirmation(group, vouchers)]

(***************************************************************************)
(* Issuance orchestrator: POST /api/policies/issue -> issuePolicy          *)
(***************************************************************************)

\* the error reaches the request boundary: the open transaction is rolled
\* back, errorHandler answers, and the locals of issuePolicy are gone
Throw(p, err) ==
    /\ pc' = [pc EXCEPT ![p] = "done"]
    /\ tx' = [tx EXCEPT ![p] = EmptyTx]
    /\ result' = [result EXCEPT ![p] = errorHandler(err)]
    /\ log' = [log EXCEPT ![p] = @ \cup errorHandlerLog(err)]
    /\ found' = [found EXCEPT ![p] = <<>>]
    /\ paxRows' = [paxRows EXCEPT ![p] = <<>>]
    /\ tokenResult' = [tokenResult EXCEPT ![p] = NoResult]

\* an error after validation: the request body is gone with the request
ThrowLate(p, err) ==
    /\ Throw(p, err)
    /\ req' = [req EXCEPT ![p] = NoBody]

\* requireAuth, validateRequest({body: requestBodySchema}), postIssuePolicy,
\* issuePolicy up to the first statement of the transaction (tx.quote.create)
postIssuePolicy(p) ==
    /\ pc[p] = "idle"
    /\ \E params \in IssueBodies, quoteId \in {NoRow} \cup {q.id : q \in quotes} :
         LET body == [params EXCEPT !.quoteId = quoteId]
         IN /\ req' = [req EXCEPT ![p] = body]
            /\ IF requestBodySchema(body) # {}
               THEN Throw(p, BadRequestError(requestBodySchema(body)))
               ELSE /\ pc' = [pc EXCEPT ![p] = "creatingQuote"]
                    /\ UNCHANGED <<tx, result, log, found, paxRows, tokenResult>>
    /\ UNCHANGED <<useMock, authVars, now, tokenVars, user, dbVars, resp, charged, netCalls>>

\* STEP 1: the snapshot row is written inside the transaction; then every
\* findFirst of STEP 2 is sent
quoteCreatedOutsideTx(p) ==
    /\ pc[p] = "creatingQuote"
    /\ \/ /\ quotes' = quotes \cup {QuoteRow(p)}
          /\ pc' = [pc EXCEPT ![p] = "findingPassengers"]
          /\ UNCHANGED <<tx, result, log, found, paxRows, tokenResult, req>>
       \/ /\ ThrowLate(p, PlainError("PrismaClientError"))
          /\ UNCHANGED quotes
    /\ UNCHANGED <<useMock, authVars, now, tokenVars, user, passengers, policies,
                   resp, charged, netCalls>>
quoteCreated(p) ==
    /\ pc[p] = "creatingQuote"
    /\ \/ /\ tx' = [tx EXCEPT ![p].quotes = {QuoteRow(p)}]
          /\ pc' = [pc EXCEPT ![p] = "findingPassengers"]
          /\ UNCHANGED <<result, log, found, paxRows, tokenResult, req>>
       \/ ThrowLate(p, PlainError("PrismaClientError"))
    /\ UNCHANGED <<useMock, authVars, now, tokenVars, user, dbVars, resp, charged, netCalls>>

\* STEP 2, first half: Promise.all starts every callback, so every findFirst
\* is answered before any update or create is sent
passengersFound(p) ==
    /\ pc[p] = "findingPassengers"
    /\ \/ \E f \in [1..Len(req[p].passengers) -> {r.id : r \in passengers} \cup {NoRow}] :
            /\ \A i \in DOMAIN f :
                 LET ids == findFirstWhere(PassengerView(p), req[p].passengers[i])
                 IN IF ids = {} THEN f[i] = NoRow ELSE f[i] \in ids
            /\ found' = [found EXCEPT ![p] = f]
            /\ pc' = [pc EXCEPT ![p] = "upsertingPassengers"]
            /\ UNCHANGED <<tx, result, log, paxRows, tokenResult, req>>
       \/ ThrowLate(p, PlainError("PrismaClientError"))
    /\ UNCHANGED <<useMock, authVars, now, tokenVars, user, dbVars, resp, charged, netCalls>>

\* data: {phone, address...} of the last callback that updates row id
UpdateOf(p, id) ==
    LET last == CHOOSE i \in DOMAIN found[p] :
                    /\ found[p][i] = id
                    /\ \A j \in DOMAIN found[p] : found[p][j] = id => j <= i
    IN [id |-> id, phone |-> req[p].passengers[last].phone]

\* STEP 2, second half: tx.passenger.update for the rows found,
\* tx.passenger.create for the others; then getValidToken is called
passengersUpsertedNotAwaited(p) ==
    /\ pc[p] = "upsertingPassengers"
    /\ \/ /\ paxRows' = [paxRows EXCEPT ![p] =
                 [i \in DOMAIN found[p] |->
                     IF found[p][i] = NoRow THEN RowId(p, i) ELSE found[p][i]]]
          /\ found' = [found EXCEPT ![p] = <<>>]
          /\ pc' = [pc EXCEPT ![p] = "callToken"]
          /\ UNCHANGED <<tx, result, log, tokenResult, req>>
       \/ ThrowLate(p, PlainError("PrismaClientError"))
    /\ UNCHANGED <<useMock, authVars, now, tokenVars, user, dbVars, resp, charged, netCalls>>
\* STEP 2, second half, with db in place of tx: the rows are written to the
\* table at once
passengersUpsertedOutsideTx(p) ==
    /\ pc[p] = "upsertingPassengers"
    /\ \/ /\ passengers' =
                {IF \E i \in DOMAIN found[p] : found[p][i] = r.id
                 THEN [r EXCEPT !.phone = UpdateOf(p, r.id).phone, !.by = p]
                 ELSE r : r \in passengers}
                \cup {PassengerRow(p, i) :
                         i \in {j \in DOMAIN found[p] : found[p][j] = NoRow}}
          /\ paxRows' = [paxRows EXCEPT ![p] =
                 [i \in DOMAIN found[p] |->
                     IF found[p][i] = NoRow THEN RowId(p, i) ELSE found[p][i]]]
          /\ found' = [found EXCEPT ![p] = <<>>]
          /\ pc' = [pc EXCEPT ![p] = "callToken"]
          /\ UNCHANGED <<tx, result, log, tokenResult, req>>
       \/ /\ ThrowLate(p, PlainError("PrismaClientError"))
          /\ UNCHANGED passengers
    /\ UNCHANGED <<useMock, authVars, now, tokenVars, user, quotes, policies, resp, charged,
                   netCalls>>
passengersUpserted(p) ==
    /\ pc[p] = "upsertingPassengers"
    /\ \/ /\ tx' = [tx EXCEPT
                 ![p].updated = {UpdateOf(p, id) :
                                   id \in {found[p][i] : i \in DOMAIN found[p]} \ {NoRow}},
                 ![p].created = {PassengerRow(p, i) :
                                   i \in {j \in DOMAIN found[p] : found[p][j] = NoRow}}]
          /\ paxRows' = [paxRows EXCEPT ![p] =
                 [i \in DOMAIN found[p] |->
                     IF found[p][i] = NoRow THEN RowId(p, i) ELSE found[p][i]]]
          /\ found' = [found EXCEPT ![p] = <<>>]
          /\ pc' = [pc EXCEPT ![p] = "callToken"]
          /\ UNCHANGED <<result, log, tokenResult, req>>
       \/ ThrowLate(p, PlainError("PrismaClientError"))
    /\ UNCHANGED <<useMock, authVars, now, tokenVars, user, dbVars, resp, charged, netCalls>>

\* STEP 3: getValidToken threw; the InternalServerError leaves the transaction
tokenFailureIgnored(p) ==
    /\ pc[p] = "tokenFailed"
    /\ pc' = [pc EXCEPT ![p] = "haveToken"]
    /\ UNCHANGED <<useMock, authVars, now, tokenVars, tokenResult, netCalls, issueVars>>
tokenFailure(p) ==
    /\ pc[p] = "tokenFailed"
    /\ ThrowLate(p, InternalServerError)
    /\ UNCHANGED <<useMock, authVars, now, tokenVars, user, dbVars, resp, charged, netCalls>>

\* mapAssistcardStatusCode; NoStatus is an absent status
NoStatus == 0
mapAssistcardStatusCodeVerbatim(assistcardStatus) ==
    IF assistcardStatus = NoStatus THEN 502
    ELSE IF assistcardStatus \in {400, 401, 403, 404, 422, 429} THEN assistcardStatus
    ELSE 502
mapAssistcardStatusCode(assistcardStatus) ==
    IF assistcardStatus = NoStatus THEN 502
    ELSE CASE assistcardStatus = 400 -> 400
           [] assistcardStatus = 401 -> 502
           [] assistcardStatus = 403 -> 502
           [] assistcardStatus = 404 -> 404
           [] assistcardStatus = 422 -> 400
           [] assistcardStatus = 429 -> 503
           [] assistcardStatus \in {500, 502, 503, 504} -> 502
           [] OTHER -> 502

\* an absent (undefined) string field
Absent == ""
\* type AssistcardError: the error envelope of the provider
AssistcardError(status, traceId, errorCode, errorMessage, title) ==
    [status |-> status, traceId |-> traceId, errorCode |-> errorCode,
     errorMessage |-> errorMessage, title |-> title]

\* createAssistcardApiError
createAssistcardApiError(error) ==
    LET message == IF error.errorMessage # Absent THEN error.errorMessage
                   ELSE IF error.title # Absent THEN error.title
                   ELSE "Unknown Assistcard API error"
    IN AssistcardApiError(message, error.traceId, error.errorCode,
                          mapAssistcardStatusCode(error.status))

\* the provider statuses the model lets an error envelope carry
EnvelopeStatuses == {NoStatus, 400, 429}

\* the error envelopes of SpecTranslate: every status the mapping names, some
\* it does not, and every field present or absent
ProviderStatuses ==
    {NoStatus, 302, 400, 401, 403, 404, 409, 418, 422, 429, 500, 501, 502, 503, 504}
AssistcardErrors ==
    {AssistcardError(st, traceId, errorCode, errorMessage, title) :
        st \in ProviderStatuses, traceId \in {"trace-1", "trace-2"},
        errorCode \in {Absent, "E1"}, errorMessage \in {Absent, "declined"},
        title \in {Absent, "Bad Request"}}

\* a provider client has parsed an answer that is an error envelope
envelopeReceived(p) ==
    /\ pc[p] = "awaitingAnswer"
    /\ \E error \in AssistcardErrors : req' = [req EXCEPT ![p] = error]
    /\ pc' = [pc EXCEPT ![p] = "translating"]
    /\ UNCHANGED <<useMock, authVars, now, tokenVars, tokenResult, user, dbVars, tx,
                   localVars, charged, netCalls, log, result>>

\* throw createAssistcardApiError(envelope)
envelopeTranslated(p) ==
    /\ pc[p] = "translating"
    /\ result' = [result EXCEPT ![p] =
           [kind |-> "thrown", err |-> createAssistcardApiError(req[p])]]
    /\ pc' = [pc EXCEPT ![p] = "done"]
    /\ UNCHANGED <<useMock, authVars, now, tokenVars, tokenResult, reqVars, dbVars, tx,
                   localVars, charged, netCalls, log>>

\* issueVouchers up to its fetch: the request is validated, then sent with
\* the token.  The mock validates nothing and sends nothing.
issueVouchers(p) ==
    /\ pc[p] = "haveToken"
    /\ IF useMock
       THEN /\ pc' = [pc EXCEPT ![p] = "charging"]
            /\ tokenResult' = [tokenResult EXCEPT ![p] = NoResult]
            /\ UNCHANGED <<tx, result, log, found, paxRows, netCalls, req>>
       ELSE IF requestBodySchema(req[p]) # {}
       THEN /\ ThrowLate(p, PlainError("ZodError"))
            /\ UNCHANGED netCalls
       ELSE /\ pc' = [pc EXCEPT ![p] = "charging"]
            /\ tokenResult' = [tokenResult EXCEPT ![p] = NoResult]
            /\ netCalls' = Sent(p)
            /\ UNCHANGED <<tx, result, log, found, paxRows, req>>
    /\ UNCHANGED <<useMock, authVars, now, tokenVars, user, dbVars, resp, charged>>

IssuedLog(group) ==
    LogRecord("info", "Successfully issued vouchers via Assistcard", {group}, {})
SavedLog(group) ==
    LogRecord("info", "Successfully issued and saved policies", {group}, {})
EnvelopeLog == LogRecord("warn", "Assistcard API returned error response", {}, {})
FailedCallLog == LogRecord("error", "Failed to call Assistcard Issue Vouchers API", {}, {})

\* the issuance call returned assistcardResult r: STEP 4 starts, each callback
\* reads passengers[index].id before its tx.policy.create is sent
policiesStarted(p, r) ==
    /\ resp' = [resp EXCEPT ![p] = r]
    /\ IF Len(r.vouchers) > Len(paxRows[p])
       THEN /\ pc' = [pc EXCEPT ![p] = "done"]
            /\ tx' = [tx EXCEPT ![p] = EmptyTx]
            /\ result' = [result EXCEPT ![p] = errorHandler(PlainError("TypeError"))]
            /\ log' = [log EXCEPT ![p] =
                   @ \cup {IssuedLog(r.voucherGroup)} \cup errorHandlerLog(PlainError("TypeError"))]
            /\ paxRows' = [paxRows EXCEPT ![p] = <<>>]
            /\ req' = [req EXCEPT ![p] = NoBody]
       ELSE /\ pc' = [pc EXCEPT ![p] = "creatingPolicies"]
            /\ log' = [log EXCEPT ![p] = @ \cup {IssuedLog(r.voucherGroup)}]
            /\ UNCHANGED <<tx, result, paxRows, req>>
    /\ UNCHANGED <<found, tokenResult>>

\* the issuance call logged rec and threw err after the provider answered r
issueVouchersRetried(p, r, rec, err) ==
    /\ resp' = [resp EXCEPT ![p] = r]
    /\ pc' = [pc EXCEPT ![p] = "haveToken"]
    /\ log' = [log EXCEPT ![p] = @ \cup {rec}]
    /\ UNCHANGED <<tx, result, paxRows, req, found, tokenResult>>
issueVouchersThrew(p, r, rec, err) ==
    /\ resp' = [resp EXCEPT ![p] = r]
    /\ pc' = [pc EXCEPT ![p] = "done"]
    /\ tx' = [tx EXCEPT ![p] = EmptyTx]
    /\ result' = [result EXCEPT ![p] = errorHandler(err)]
    /\ log' = [log EXCEPT ![p] = @ \cup {rec} \cup errorHandlerLog(err)]
    /\ paxRows' = [paxRows EXCEPT ![p] = <<>>]
    /\ req' = [req EXCEPT ![p] = NoBody]
    /\ UNCHANGED <<found, tokenResult>>

\* the answer to the issuance call arrives and issueVouchers resumes
vouchersResponse(p) ==
    /\ pc[p] = "charging"
    /\ IF useMock
       THEN /\ \E v \in MockVouchers(p) : policiesStarted(p, RespOk(ProviderGroup(p), v))
            /\ UNCHANGED charged
       ELSE \/ \* fetch rejects: the request or its answer was lost
               \E c \in BOOLEAN :
                 /\ charged' = [charged EXCEPT ![p] = c]
                 /\ issueVouchersThrew(p, [kind |-> "network"], FailedCallLog,
                                       NetworkError)
            \/ \* the answer fails issueVouchersResponseSchema: the ZodError is an
               \* Error and leaves as a "Network error"
               \E c \in BOOLEAN :
                 /\ charged' = [charged EXCEPT ![p] = c]
                 /\ issueVouchersThrew(p, [kind |-> "invalid"], FailedCallLog,
                                       NetworkError)
            \/ \* error envelope: !isSuccess or no data
               \E st \in EnvelopeStatuses :
                 /\ issueVouchersThrew(p, [kind |-> "envelope", status |-> st], EnvelopeLog,
                                       createAssistcardApiError(
                                           AssistcardError(st, "trace-1", "E1", "declined", Absent)))
                 /\ UNCHANGED charged
            \/ \* the card is charged and the vouchers exist
               \E v \in ProviderVouchers(p) :
                 /\ charged' = [charged EXCEPT ![p] = TRUE]
                 /\ policiesStarted(p, RespOk(ProviderGroup(p), v))
    /\ UNCHANGED <<useMock, authVars, now, tokenVars, user, dbVars, netCalls>>

\* the voucher codes of a set of Policy rows
VoucherCodesOf(rows) == {r.voucherCode : r \in rows}

\* table Policy without its unique index: every row can be added
UniqueViolationNever(rows, table) == FALSE
\* CREATE UNIQUE INDEX "Policy_voucherCode_key": rows cannot be added to table
UniqueViolation(rows, table) ==
    \/ Cardinality(VoucherCodesOf(rows)) < Cardinality(rows)
    \/ VoucherCodesOf(rows) \cap VoucherCodesOf(table) # {}

NewPolicyRows(p) == {PolicyRow(p, i) : i \in DOMAIN resp[p].vouchers}

\* STEP 4: the tx.policy.create statements are answered; STEP 5 logs and
\* returns, and the commit is sent
policiesCreated(p) ==
    /\ pc[p] = "creatingPolicies"
    /\ \/ /\ ~UniqueViolation(NewPolicyRows(p), policies)
          /\ tx' = [tx EXCEPT ![p].policies = NewPolicyRows(p)]
          /\ log' = [log EXCEPT ![p] = @ \cup {SavedLog(resp[p].voucherGroup)}]
          /\ pc' = [pc EXCEPT ![p] = "committing"]
          /\ UNCHANGED <<result, found, paxRows, tokenResult, req>>
       \/ /\ UniqueViolation(NewPolicyRows(p), policies)
          /\ ThrowLate(p, PlainError("PrismaClientKnownRequestError"))
       \/ /\ resp[p].vouchers # <<>>
          /\ ThrowLate(p, PlainError("PrismaClientError"))
    /\ UNCHANGED <<useMock, authVars, now, tokenVars, user, dbVars, resp, charged, netCalls>>

\* a commit that also marks the snapshot the request names as issued
commitMarkingQuote(p) ==
    /\ quotes' = {IF q.id = req[p].quoteId THEN [q EXCEPT !.status = "issued"] ELSE q :
                     q \in quotes} \cup tx[p].quotes
    /\ passengers' = PassengerView(p)
    /\ policies' = policies \cup tx[p].policies
\* the rows of the transaction of p replace and join the committed ones
commit(p) ==
    /\ quotes' = quotes \cup tx[p].quotes
    /\ passengers' = PassengerView(p)
    /\ policies' = policies \cup tx[p].policies

Ok == [kind |-> "ok", cls |-> "", statusCode |-> 200, issues |-> {}]

\* the COMMIT of db.$transaction is answered; on success res.json sends
\* {quote, passengers, policies, vouchers}
transactionCommitted(p) ==
    /\ pc[p] = "committing"
    /\ \/ /\ ~UniqueViolation(tx[p].policies, policies)
          /\ commit(p)
          /\ tx' = [tx EXCEPT ![p] = EmptyTx]
          /\ pc' = [pc EXCEPT ![p] = "done"]
          /\ result' = [result EXCEPT ![p] = Ok]
          /\ UNCHANGED <<log, found, paxRows, tokenResult, req>>
       \/ /\ UniqueViolation(tx[p].policies, policies)
          /\ ThrowLate(p, PlainError("PrismaClientKnownRequestError"))
          /\ UNCHANGED dbVars
       \/ /\ ThrowLate(p, PlainError("PrismaClientError"))
          /\ UNCHANGED dbVars
    /\ UNCHANGED <<useMock, authVars, now, tokenVars, user, resp, charged, netCalls>>

(***************************************************************************)
(* Quote snapshot service: saveQuote, getQuote                             *)
(***************************************************************************)

ProductCodes == {<<>>, <<"P">>}
RateCodes == {<<>>, <<"R">>}
\* SaveQuoteRequest (the fields saveQuote decides on)
SaveParams == [op : {"save"}, productCode : ProductCodes, rateCode : RateCodes,
               passengers : {<<FirstPassenger>>}]
\* the quote ids a caller may ask for: every id in use and one that never is
QuoteIds == (1..NumQuoteCalls) \cup {StoredQuoteId}

\* saveQuote up to db.quote.create
saveQuoteRateOnly(p) ==
    /\ pc[p] = "quoteIdle"
    /\ \E params \in SaveParams :
         /\ req' = [req EXCEPT ![p] = params]
         /\ IF params.rateCode = <<>>
            THEN Throw(p, BadRequestError({}))
            ELSE /\ pc' = [pc EXCEPT ![p] = "savingQuote"]
                 /\ UNCHANGED <<tx, result, log, found, paxRows, tokenResult>>
    /\ UNCHANGED <<useMock, authVars, now, tokenVars, user, dbVars, resp, charged, netCalls>>
saveQuote(p) ==
    /\ pc[p] = "quoteIdle"
    /\ \E params \in SaveParams :
         /\ req' = [req EXCEPT ![p] = params]
         /\ IF params.productCode = <<>> \/ params.rateCode = <<>>
            THEN Throw(p, BadRequestError({}))
            ELSE /\ pc' = [pc EXCEPT ![p] = "savingQuote"]
                 /\ UNCHANGED <<tx, result, log, found, paxRows, tokenResult>>
    /\ UNCHANGED <<useMock, authVars, now, tokenVars, user, dbVars, resp, charged, netCalls>>

SaveQuoteResult(quote) ==
    [kind |-> "saved", id |-> quote.id, expiresAt |-> quote.expiresAt]

\* db.quote.create is answered (the store of this service always answers):
\* the row exists, saveQuote logs and returns
quoteSaved(p) ==
    /\ pc[p] = "savingQuote"
    /\ LET quote == Quote(QuoteId(p), user[p], "saved",
                          Len(req[p].passengers))
       IN /\ quotes' = quotes \cup {quote}
          /\ result' = [result EXCEPT ![p] = SaveQuoteResult(quote)]
          /\ log' = [log EXCEPT ![p] =
                 @ \cup {LogRecord("info", "Quote saved successfully", {}, {})}]
          /\ pc' = [pc EXCEPT ![p] = "done"]
          /\ UNCHANGED <<tx, found, paxRows, tokenResult>>
    /\ UNCHANGED <<useMock, authVars, now, tokenVars, reqVars, passengers, policies,
                   resp, charged, netCalls>>

\* getQuote up to db.quote.findUnique
getQuote(p) ==
    /\ pc[p] = "quoteIdle"
    /\ \E quoteId \in QuoteIds :
         req' = [req EXCEPT ![p] = [op |-> "get", quoteId |-> quoteId]]
    /\ pc' = [pc EXCEPT ![p] = "readingQuote"]
    /\ UNCHANGED <<useMock, authVars, now, tokenVars, tokenResult, user, dbVars, tx,
                   localVars, charged, netCalls, log, result>>

\* where: {id: quoteId}
findUnique(quoteId) == {q \in quotes : q.id = quoteId}

\* the records getQuote logs for a snapshot it hands out
getQuoteLog(quote) ==
    {LogRecord("warn", "User loading expired quote", {}, {}) :
        x \in {y \in {quote} : y.expiresAt < now}}
    \cup {LogRecord("info", "User loading already-issued quote", {}, {}) :
        x \in {y \in {quote} : y.status = "issued"}}
    \cup {LogRecord("info", "Quote loaded for resumption", {}, {})}

\* getQuote after findUnique: what it throws or returns for the rows found
getQuoteUnexpiredOnly(rows, userId) ==
    IF rows = {} THEN [kind |-> "throw", err |-> NotFoundError]
    ELSE IF (CHOOSE q \in rows : TRUE).userId # userId
    THEN [kind |-> "throw", err |-> ForbiddenError]
    ELSE IF (CHOOSE q \in rows : TRUE).expiresAt < now
    THEN [kind |-> "throw", err |-> NotFoundError]
    ELSE [kind |-> "quote", data |-> CHOOSE q \in rows : TRUE]
getQuoteAnyUser(rows, userId) ==
    IF rows = {} THEN [kind |-> "throw", err |-> NotFoundError]
    ELSE [kind |-> "quote", data |-> CHOOSE q \in rows : TRUE]
getQuoteResult(rows, userId) ==
    IF rows = {} THEN [kind |-> "throw", err |-> NotFoundError]
    ELSE IF (CHOOSE q \in rows : TRUE).userId # userId
    THEN [kind |-> "throw", err |-> ForbiddenError]
    ELSE [kind |-> "quote", data |-> CHOOSE q \in rows : TRUE]

\* db.quote.findUnique is answered and getQuote runs to its end
quoteRead(p) ==
    /\ pc[p] = "readingQuote"
    /\ LET r == getQuoteResult(findUnique(req[p].quoteId), user[p])
       IN IF r.kind = "throw"
          THEN Throw(p, r.err)
          ELSE /\ result' = [result EXCEPT ![p] = r]
               /\ log' = [log EXCEPT ![p] = @ \cup getQuoteLog(r.data)]
               /\ pc' = [pc EXCEPT ![p] = "done"]
               /\ UNCHANGED <<tx, found, paxRows, tokenResult>>
    /\ UNCHANGED <<useMock, authVars, now, tokenVars, reqVars, dbVars, resp, charged, netCalls>>

\* a day passes
DayPasses ==
    /\ now < MaxDays * QuoteTtl
    /\ now' = now + QuoteTtl
    /\ UNCHANGED <<useMock, authVars, tokenVars, pc, tokenResult, netCalls, issueVars>>

(***************************************************************************)
(* Quote Client: quoteProducts, real and mock                              *)
(***************************************************************************)

\* the digits of n, padded with zeros to width w
RECURSIVE Digits(_, _)
Digits(n, w) ==
    IF w = 0 THEN <<>>
    ELSE Append(Digits(n \div 10, w - 1), DigitChars[(n % 10) + 1])

\* a date as a request carries it: YYYY/MM/DD
DateString(y, m, d) ==
    Digits(y, 4) \o <<"/">> \o Digits(m, 2) \o <<"/">> \o Digits(d, 2)

\* the dates of the model: around the end of February of a leap year and of
\* a common year, around the turn of the year, and the dates of the scenario
DateSamples ==
    {DateString(2024, 2, 28), DateString(2024, 2, 29), DateString(2024, 3, 1),
     DateString(2024, 12, 31), DateString(2025, 1, 1), DateString(2025, 2, 1),
     DateString(2025, 2, 15), DateString(2025, 2, 28), DateString(2025, 3, 1)}

IsDigit(ch) == \E i \in 1..Len(DigitChars) : DigitChars[i] = ch
DigitValue(ch) == (CHOOSE i \in 1..Len(DigitChars) : DigitChars[i] = ch) - 1

\* /^\d{4}\/\d{2}\/\d{2}$/
dateStringSchema(s) ==
    /\ Len(s) = 10
    /\ \A i \in 1..10 : IF i \in {5, 8} THEN s[i] = "/" ELSE IsDigit(s[i])

\* /^[A-Z]{2}$/, on the country codes of the model
countryCodeSchema(s) == s = "AR"

\* quoteProductRequestSchema: the paths of the fields that fail
quoteProductRequestSchema(body) ==
    {path \in {"countryCode"} : ~countryCodeSchema(body.countryCode)}
    \cup {path \in {"beginDate"} : ~dateStringSchema(body.beginDate)}
    \cup {path \in {"endDate"} : ~dateStringSchema(body.endDate)}
    \cup {path \in {"passengers"} :
             \/ Len(body.passengers) < MinPassengersAllowed
             \/ Len(body.passengers) > MaxPassengersAllowed}

\* quotePassengerSchema
QuotePassenger == [countryCode |-> "AR", birthDate |-> DateString(1990, 1, 1)]

\* the requests the model hands to the Quote Client, Point Emisor injected:
\* ASSISTCARD_COUNTRY_CODE set or not, no passenger up to one too many
QuoteParams ==
    [countryCode : {"AR", Absent}, beginDate : DateSamples, endDate : DateSamples,
     passengers : {[i \in 1..n |-> QuotePassenger] :
                      n \in (0..MaxPassengers) \cup {MaxPassengersAllowed + 1}},
     promotionalCode : {Absent, "PROMO"}]

\* params.beginDate.replace(/\//g, '-')
replace(s) == [i \in 1..Len(s) |-> IF s[i] = "/" THEN "-" ELSE s[i]]

\* the number written in s[i..j]
RECURSIVE NumberAt(_, _, _)
NumberAt(s, i, j) ==
    IF j < i THEN 0 ELSE 10 * NumberAt(s, i, j - 1) + DigitValue(s[j])

\* 1000 * 60 * 60 * 24 ms, in minutes
MinutesPerDay == 24 * 60

\* new Date("YYYY-MM-DD").getTime(), in minutes: midnight UTC of that day,
\* counted from 1970-01-01 in the proleptic Gregorian calendar
getTime(iso) ==
    LET y == NumberAt(iso, 1, 4)
        m == NumberAt(iso, 6, 7)
        d == NumberAt(iso, 9, 10)
        yy == IF m <= 2 THEN y - 1 ELSE y
        era == yy \div 400
        yoe == yy - era * 400
        doy == (153 * ((m + 9) % 12) + 2) \div 5 + d - 1
        doe == yoe * 365 + yoe \div 4 - yoe \div 100 + doy
    IN (era * 146097 + doe - 719468) * MinutesPerDay

\* Math.ceil(a / b), b > 0
ceil(a, b) == -((-a) \div b)

\* Math.ceil((endDate.getTime() - beginDate.getTime()) / (1000*60*60*24)) + 1
durationExclusive(params) ==
    ceil(getTime(replace(params.endDate)) - getTime(replace(params.beginDate)),
         MinutesPerDay)
duration(params) ==
    ceil(getTime(replace(params.endDate)) - getTime(replace(params.beginDate)),
         MinutesPerDay) + 1

basePricePerDay == 25
\* promoDiscount 0.15, in hundredths
promoDiscount == 15

\* a quoted product; amounts are in hundredths of the currency unit
QuotedProduct(rateCode, offer, totalOriginal, total) ==
    [productCode |-> "AC", rateCode |-> rateCode, promotionalOffer |-> offer,
     amount |-> [totalOriginal |-> totalOriginal, total |-> total]]

\* products.mock.ts: AC 150, AC 250 (x 1.5) and AC 350 (x 2); only AC 150
\* takes the promotional discount
mockProducts(params) ==
    LET base == duration(params) * Len(params.passengers) * basePricePerDay
        hasPromo == params.promotionalCode # Absent
        discount == IF hasPromo THEN promoDiscount ELSE 0
    IN <<QuotedProduct("150", params.promotionalCode,
                       base * 100, base * (100 - discount)),
         QuotedProduct("250", Absent, base * 150, base * 150),
         QuotedProduct("350", Absent, base * 200, base * 200)>>

\* the product lists the provider may answer with: none, a discounted one, and
\* one whose total is above its original total
ProviderProducts ==
    {<<>>, <<QuotedProduct("150", Absent, 1000, 900)>>,
     <<QuotedProduct("150", Absent, 1000, 1000), QuotedProduct("250", Absent, 2000, 2100)>>}

\* what a caller of a client gets back
Returned(data) == [kind |-> "products", data |-> data]
Thrown(err) == [kind |-> "thrown", err |-> err]

CallingQuoteLog == LogRecord("info", "Calling Assistcard Quote Products API", {}, {})
MockQuoteLog == LogRecord("info", "Mock API returned products successfully", {}, {})
QuotedLog == LogRecord("info", "Successfully retrieved products from Assistcard", {}, {})
FailedQuoteLog == LogRecord("error", "Failed to call Assistcard Quote Products API", {}, {})

\* quoteProducts up to its fetch.  The mock computes its products from the
\* request and sends nothing.
quoteProductsUnchecked(p) ==
    /\ pc[p] = "callQuote"
    /\ \E params \in QuoteParams :
         /\ req' = [req EXCEPT ![p] = params]
         /\ pc' = [pc EXCEPT ![p] = "quoting"]
         /\ netCalls' = Sent(p)
         /\ log' = [log EXCEPT ![p] = @ \cup {CallingQuoteLog}]
         /\ UNCHANGED result
    /\ UNCHANGED <<useMock, authVars, now, tokenVars, tokenResult, user, dbVars, tx,
                   localVars, charged>>
quoteProducts(p) ==
    /\ pc[p] = "callQuote"
    /\ \E params \in QuoteParams :
         /\ req' = [req EXCEPT ![p] = params]
         /\ IF useMock
            THEN /\ pc' = [pc EXCEPT ![p] = "done"]
                 /\ result' = [result EXCEPT ![p] = Returned(mockProducts(params))]
                 /\ log' = [log EXCEPT ![p] = @ \cup {MockQuoteLog}]
                 /\ UNCHANGED netCalls
            ELSE IF quoteProductRequestSchema(params) # {}
            THEN /\ pc' = [pc EXCEPT ![p] = "done"]
                 /\ result' = [result EXCEPT ![p] = Thrown(PlainError("ZodError"))]
                 /\ UNCHANGED <<netCalls, log>>
            ELSE /\ pc' = [pc EXCEPT ![p] = "quoting"]
                 /\ netCalls' = Sent(p)
                 /\ log' = [log EXCEPT ![p] = @ \cup {CallingQuoteLog}]
                 /\ UNCHANGED result
    /\ UNCHANGED <<useMock, authVars, now, tokenVars, tokenResult, user, dbVars, tx,
                   localVars, charged>>

\* data of a provider answer: absent, or present and well-formed or not
NoData == [present |-> FALSE, wellFormed |-> TRUE, quotedProducts |-> <<>>]
AnswerData ==
    {NoData}
    \cup {[present |-> TRUE, wellFormed |-> TRUE, quotedProducts |-> v] :
             v \in ProviderProducts}
    \cup {[present |-> TRUE, wellFormed |-> FALSE, quotedProducts |-> <<>>]}

\* the bodies the provider may answer a quote call with
ProviderAnswers ==
    [traceId : {"trace-1", Absent}, isSuccess : {"true", "false", Absent},
     data : AnswerData, status : EnvelopeStatuses]

\* quoteProductResponseSchema: traceId a uuid, isSuccess a boolean, data
\* optional and of shape quoteProductResponseDataSchema
quoteProductResponseSchema(answer) ==
    /\ answer.traceId # Absent
    /\ answer.isSuccess \in {"true", "false"}
    /\ answer.data.present => answer.data.wellFormed

\* quoteProducts answered r: it logs rec and returns or throws res
quoteProductsEnded(p, r, rec, res) ==
    /\ resp' = [resp EXCEPT ![p] = r]
    /\ pc' = [pc EXCEPT ![p] = "done"]
    /\ result' = [result EXCEPT ![p] = res]
    /\ log' = [log EXCEPT ![p] = @ \cup {rec}]

\* the answer to the quote call arrives, or fetch rejects, and quoteProducts
\* resumes
productsResponse(p) ==
    /\ pc[p] = "quoting"
    /\ \/ quoteProductsEnded(p, [kind |-> "network"], FailedQuoteLog,
                             Thrown(NetworkError))
       \/ \E answer \in ProviderAnswers :
            LET r == [kind |-> "answer", body |-> answer]
            IN IF ~quoteProductResponseSchema(answer)
               THEN quoteProductsEnded(p, r, FailedQuoteLog, Thrown(NetworkError))
               ELSE IF answer.isSuccess # "true" \/ ~answer.data.present
               THEN quoteProductsEnded(p, r, EnvelopeLog,
                        Thrown(createAssistcardApiError(
                            AssistcardError(answer.status, answer.traceId,
                                            Absent, Absent, Absent))))
               ELSE quoteProductsEnded(p, r, QuotedLog,
                                       Returned(answer.data.quotedProducts))
    /\ UNCHANGED <<useMock, authVars, now, tokenVars, tokenResult, reqVars, dbVars, tx,
                   found, paxRows, charged, netCalls>>

(***************************************************************************)
(* Client auth store: checkSession, signIn, signUp                         *)
(***************************************************************************)

\* user: null, error: null
NoUser == "null"
NoError == "null"

\* initialState.  Field "checkAfter" is a ghost: the calls whose login request
\* had completed when the session check that wrote user and isAuthenticated
\* was started.
initialState ==
    [user |-> NoUser, isAuthenticated |-> FALSE, isInitialized |-> FALSE,
     isLoading |-> FALSE, isAuthenticating |-> FALSE, error |-> NoError,
     checkAfter |-> {}]

\* the arguments of a call of the store; "accepted" tells whether the server
\* will accept the credentials, "after" is the ghost of the check it starts
AuthCall(op, accepted, after) == [op |-> op, accepted |-> accepted, after |-> after]

\* the calls whose login request has completed successfully
LoginsCompleted ==
    {q \in Procs :
        /\ pc[q] \in {"checkingSession", "sessionAnswered", "done"}
        /\ req[q].op \in {"signIn", "signUp"}
        /\ resp[q].kind # "rejected"}

Resolved == [kind |-> "resolved"]

\* checkSession up to its fetch
checkSession(p) ==
    /\ pc[p] = "authIdle"
    /\ req' = [req EXCEPT ![p] = AuthCall("checkSession", TRUE, LoginsCompleted)]
    /\ IF store.isLoading
       THEN /\ pc' = [pc EXCEPT ![p] = "done"]
            /\ result' = [result EXCEPT ![p] = Resolved]
            /\ UNCHANGED store
       ELSE /\ store' = [store EXCEPT !.isLoading = TRUE, !.error = NoError]
            /\ pc' = [pc EXCEPT ![p] = "checkingSession"]
            /\ UNCHANGED result
    /\ UNCHANGED <<useMock, now, tokenVars, tokenResult, user, dbVars, tx,
                   localVars, charged, netCalls, log, serverSession>>

\* the server answers GET /api/auth/get-session, or the request fails
getSession(p) ==
    /\ pc[p] = "checkingSession"
    /\ \E r \in {[kind |-> "session", user |-> serverSession], [kind |-> "failed"]} :
         resp' = [resp EXCEPT ![p] = r]
    /\ pc' = [pc EXCEPT ![p] = "sessionAnswered"]
    /\ UNCHANGED <<useMock, now, tokenVars, tokenResult, reqVars, dbVars, tx,
                   found, paxRows, charged, netCalls, log, result, authVars>>

\* checkSession after its fetch; a signIn or signUp that awaits this check
\* then sets isAuthenticating to false and resolves
checkSessionResponse(p) ==
    /\ pc[p] = "sessionAnswered"
    /\ LET u == IF resp[p].kind = "session" THEN resp[p].user ELSE NoUser
       IN store' = [store EXCEPT
              !.user = u, !.isAuthenticated = (u # NoUser),
              !.isInitialized = TRUE, !.isLoading = FALSE, !.error = NoError,
              !.isAuthenticating =
                  IF req[p].op = "checkSession" THEN @ ELSE FALSE,
              !.checkAfter = req[p].after]
    /\ pc' = [pc EXCEPT ![p] = "done"]
    /\ result' = [result EXCEPT ![p] = Resolved]
    /\ UNCHANGED <<useMock, now, tokenVars, tokenResult, reqVars, dbVars, tx,
                   localVars, charged, netCalls, log, serverSession>>

\* signIn and signUp up to their fetch
signIn(p) ==
    /\ pc[p] = "authIdle"
    /\ \E accepted \in BOOLEAN :
         req' = [req EXCEPT ![p] = AuthCall("signIn", accepted, {})]
    /\ store' = [store EXCEPT !.isAuthenticating = TRUE, !.error = NoError]
    /\ pc' = [pc EXCEPT ![p] = "signingIn"]
    /\ UNCHANGED <<useMock, now, tokenVars, tokenResult, user, dbVars, tx,
                   localVars, charged, netCalls, log, result, serverSession>>
signUp(p) ==
    /\ pc[p] = "authIdle"
    /\ \E accepted \in BOOLEAN :
         req' = [req EXCEPT ![p] = AuthCall("signUp", accepted, {})]
    /\ store' = [store EXCEPT !.isAuthenticating = TRUE, !.error = NoError]
    /\ pc' = [pc EXCEPT ![p] = "signingUp"]
    /\ UNCHANGED <<useMock, now, tokenVars, tokenResult, user, dbVars, tx,
                   localVars, charged, netCalls, log, result, serverSession>>

\* the statuses POST /api/auth/sign-in/email and /sign-up/email refuse with
SignInStatuses == {401, 403, 500}
SignUpStatuses == {400, 422, 500}

\* the server answers the login request: it opens the session of the caller
\* or refuses
signInEmail(p) ==
    /\ pc[p] = "signingIn"
    /\ IF req[p].accepted
       THEN /\ serverSession' = user[p]
            /\ resp' = [resp EXCEPT ![p] = [kind |-> "accepted"]]
       ELSE /\ \E st \in SignInStatuses :
                 resp' = [resp EXCEPT ![p] = [kind |-> "rejected", statusCode |-> st]]
            /\ UNCHANGED serverSession
    /\ pc' = [pc EXCEPT ![p] = "loginAnswered"]
    /\ UNCHANGED <<useMock, now, tokenVars, tokenResult, reqVars, dbVars, tx,
                   found, paxRows, charged, netCalls, log, result, store>>
signUpEmail(p) ==
    /\ pc[p] = "signingUp"
    /\ IF req[p].accepted
       THEN /\ serverSession' = user[p]
            /\ resp' = [resp EXCEPT ![p] = [kind |-> "accepted"]]
       ELSE /\ \E st \in SignUpStatuses :
                 resp' = [resp EXCEPT ![p] = [kind |-> "rejected", statusCode |-> st]]
            /\ UNCHANGED serverSession
    /\ pc' = [pc EXCEPT ![p] = "loginAnswered"]
    /\ UNCHANGED <<useMock, now, tokenVars, tokenResult, reqVars, dbVars, tx,
                   found, paxRows, charged, netCalls, log, result, store>>

\* errorMessage of the catch blocks of signIn and signUp
errorMessage(op, statusCode) ==
    IF op = "signIn"
    THEN CASE statusCode = 401 -> "Invalid email or password"
           [] statusCode = 403 -> "Please verify your email address"
           [] OTHER -> "error.message"
    ELSE CASE statusCode = 400 -> "Email already in use"
           [] statusCode = 422 -> "Invalid input. Please check your details."
           [] OTHER -> "error.message"

\* signIn and signUp after their fetch: on success get().checkSession() runs
\* up to its fetch, or returns at once when a check is loading and the call
\* resolves; on failure the call sets the error and throws
afterLogin(p) ==
    /\ pc[p] = "loginAnswered"
    /\ IF resp[p].kind = "accepted"
       THEN IF store.isLoading
            THEN /\ store' = [store EXCEPT !.isAuthenticating = FALSE]
                 /\ pc' = [pc EXCEPT ![p] = "done"]
                 /\ result' = [result EXCEPT ![p] = Resolved]
                 /\ UNCHANGED req
            ELSE /\ store' = [store EXCEPT !.isLoading = TRUE, !.error = NoError]
                 /\ req' = [req EXCEPT ![p].after = LoginsCompleted \cup {p}]
                 /\ pc' = [pc EXCEPT ![p] = "checkingSession"]
                 /\ UNCHANGED result
       ELSE /\ store' = [store EXCEPT
                   !.isAuthenticating = FALSE,
                   !.error = errorMessage(req[p].op, resp[p].statusCode)]
            /\ pc' = [pc EXCEPT ![p] = "done"]
            /\ result' = [result EXCEPT ![p] =
                   [kind |-> "thrown",
                    err |-> errorMessage(req[p].op, resp[p].statusCode)]]
            /\ UNCHANGED req
    /\ UNCHANGED <<useMock, now, tokenVars, tokenResult, user, dbVars, tx,
                   localVars, charged, netCalls, log, serverSession>>

(***************************************************************************)
(* Specifications                                                          *)
(***************************************************************************)

\* the session user of request p
SessionUser(p) == Users[((p - 1) % Len(Users)) + 1]

InitShared(procs) ==
    /\ now = 0
    /\ cachedToken = {}
    /\ sentCookie = [p \in procs |-> NoCookie]
    /\ tokenResult = [p \in procs |-> NoResult]
    /\ user = [p \in procs |-> SessionUser(p)]
    /\ req = [p \in procs |-> NoBody]
    /\ passengers = {}
    /\ policies = {}
    /\ tx = [p \in procs |-> EmptyTx]
    /\ found = [p \in procs |-> <<>>]
    /\ paxRows = [p \in procs |-> <<>>]
    /\ resp = [p \in procs |-> NoResp]
    /\ charged = [p \in procs |-> FALSE]
    /\ netCalls = [p \in procs |-> 0]
    /\ log = [p \in procs |-> {}]
    /\ result = [p \in procs |-> NoResult]
    /\ store = initialState
    /\ serverSession = NoUser

\* the token manager alone, called by NumCallers concurrent requests
InitToken ==
    /\ useMock \in BOOLEAN
    /\ InitShared(1..NumCallers)
    /\ quotes = {}
    /\ pc = [p \in 1..NumCallers |-> "callToken"]

NextToken ==
    \/ \E p \in Procs : getValidToken(p)
    \/ \E p \in Procs : refreshResponse(p)
    \/ \E p \in Procs : loginResponse(p)
    \/ Tick

SpecToken == InitToken /\ [][NextToken]_vars

\* NumRequests concurrent POST /api/policies/issue requests
InitIssue ==
    /\ useMock \in BOOLEAN
    /\ InitShared(1..NumRequests)
    /\ quotes = {}
    /\ pc = [p \in 1..NumRequests |-> "idle"]

NextIssue ==
    \/ \E p \in Procs : postIssuePolicy(p)
    \/ \E p \in Procs : quoteCreated(p)
    \/ \E p \in Procs : passengersFound(p)
    \/ \E p \in Procs : passengersUpserted(p)
    \/ \E p \in Procs : getValidToken(p)
    \/ \E p \in Procs : refreshResponse(p)
    \/ \E p \in Procs : loginResponse(p)
    \/ \E p \in Procs : tokenFailure(p)
    \/ \E p \in Procs : issueVouchers(p)
    \/ \E p \in Procs : vouchersResponse(p)
    \/ \E p \in Procs : policiesCreated(p)
    \/ \E p \in Procs : transactionCommitted(p)

SpecIssue == InitIssue /\ [][NextIssue]_vars

\* the snapshot an earlier issuance of the first user has left in the store
IssuedBefore == [id |-> StoredQuoteId, userId |-> Users[1], status |-> "issued",
                 passengersCount |-> 1, createdAt |-> 0, expiresAt |-> QuoteTtl,
                 after |-> {}]

\* NumQuoteCalls calls of the quote service, over an empty store or over the
\* store an earlier issuance has written to
InitQuote ==
    /\ useMock = FALSE
    /\ InitShared(1..NumQuoteCalls)
    /\ quotes \in {{}, {IssuedBefore}}
    /\ pc = [p \in 1..NumQuoteCalls |-> "quoteIdle"]

NextQuote ==
    \/ \E p \in Procs : saveQuote(p)
    \/ \E p \in Procs : quoteSaved(p)
    \/ \E p \in Procs : getQuote(p)
    \/ \E p \in Procs : quoteRead(p)
    \/ DayPasses

SpecQuote == InitQuote /\ [][NextQuote]_vars

\* the snapshot an earlier saveQuote of the first user has left in the store
SavedBefore == [id |-> StoredQuoteId, userId |-> Users[1], status |-> "saved",
                passengersCount |-> 1, createdAt |-> 0, expiresAt |-> QuoteTtl,
                after |-> {}]

\* the issuance requests and the quote-service calls of SpecStore
StoreIssuers == 1..NumRequests
StoreCallers == (NumRequests + 1)..(NumRequests + NumStoreCalls)

\* NumRequests issuances and NumStoreCalls calls of the quote service over
\* one store that holds a saved snapshot, the provider mocked
\* (ASSISTCARD_USE_MOCK)
InitStore ==
    /\ useMock = TRUE
    /\ InitShared(StoreIssuers \cup StoreCallers)
    /\ quotes = {SavedBefore}
    /\ pc = [p \in StoreIssuers \cup StoreCallers |->
                IF p \in StoreIssuers THEN "idle" ELSE "quoteIdle"]

NextStore ==
    \/ \E p \in Procs : postIssuePolicy(p)
    \/ \E p \in Procs : quoteCreated(p)
    \/ \E p \in Procs : passengersFound(p)
    \/ \E p \in Procs : passengersUpserted(p)
    \/ \E p \in Procs : getValidToken(p)
    \/ \E p \in Procs : issueVouchers(p)
    \/ \E p \in Procs : vouchersResponse(p)
    \/ \E p \in Procs : policiesCreated(p)
    \/ \E p \in Procs : transactionCommitted(p)
    \/ \E p \in Procs : saveQuote(p)
    \/ \E p \in Procs : quoteSaved(p)
    \/ \E p \in Procs : getQuote(p)
    \/ \E p \in Procs : quoteRead(p)

SpecStore == InitStore /\ [][NextStore]_vars

\* NumAuthCalls calls of the client auth store in one browser, with or
\* without a session left from an earlier visit
InitAuth ==
    /\ useMock = FALSE
    /\ now = 0
    /\ cachedToken = {}
    /\ sentCookie = [p \in 1..NumAuthCalls |-> NoCookie]
    /\ tokenResult = [p \in 1..NumAuthCalls |-> NoResult]
    /\ user = [p \in 1..NumAuthCalls |-> Users[1]]
    /\ req = [p \in 1..NumAuthCalls |-> NoBody]
    /\ quotes = {}
    /\ passengers = {}
    /\ policies = {}
    /\ tx = [p \in 1..NumAuthCalls |-> EmptyTx]
    /\ found = [p \in 1..NumAuthCalls |-> <<>>]
    /\ paxRows = [p \in 1..NumAuthCalls |-> <<>>]
    /\ resp = [p \in 1..NumAuthCalls |-> NoResp]
    /\ charged = [p \in 1..NumAuthCalls |-> FALSE]
    /\ netCalls = [p \in 1..NumAuthCalls |-> 0]
    /\ log = [p \in 1..NumAuthCalls |-> {}]
    /\ result = [p \in 1..NumAuthCalls |-> NoResult]
    /\ store = initialState
    /\ serverSession \in {NoUser, Users[1]}
    /\ pc = [p \in 1..NumAuthCalls |-> "authIdle"]

NextAuth ==
    \/ \E p \in Procs : checkSession(p)
    \/ \E p \in Procs : getSession(p)
    \/ \E p \in Procs : checkSessionResponse(p)
    \/ \E p \in Procs : signIn(p)
    \/ \E p \in Procs : signUp(p)
    \/ \E p \in Procs : signInEmail(p)
    \/ \E p \in Procs : signUpEmail(p)
    \/ \E p \in Procs : afterLogin(p)

SpecAuth == InitAuth /\ [][NextAuth]_vars

\* the translation of provider error envelopes
InitTranslate ==
    /\ useMock = FALSE
    /\ InitShared(1..NumEnvelopes)
    /\ quotes = {}
    /\ pc = [p \in 1..NumEnvelopes |-> "awaitingAnswer"]

NextTranslate ==
    \/ \E p \in Procs : envelopeReceived(p)
    \/ \E p \in Procs : envelopeTranslated(p)

SpecTranslate == InitTranslate /\ [][NextTranslate]_vars

\* one call of a provider client, made with a token at hand: the Quote Client
\* with any request, or the Issuance Client as issuePolicy calls it in STEP 3
InitClients ==
    /\ useMock \in BOOLEAN
    /\ now = 0
    /\ quotes = {}
    /\ passengers = {}
    /\ policies = {}
    /\ user = [p \in {1} |-> SessionUser(p)]
    /\ sentCookie = [p \in {1} |-> NoCookie]
    /\ tx = [p \in {1} |-> EmptyTx]
    /\ found = [p \in {1} |-> <<>>]
    /\ resp = [p \in {1} |-> NoResp]
    /\ charged = [p \in {1} |-> FALSE]
    /\ netCalls = [p \in {1} |-> 0]
    /\ log = [p \in {1} |-> {}]
    /\ result = [p \in {1} |-> NoResult]
    /\ store = initialState
    /\ serverSession = NoUser
    /\ \/ /\ pc = [p \in {1} |-> "callQuote"]
          /\ req = [p \in {1} |-> NoBody]
          /\ paxRows = [p \in {1} |-> <<>>]
       \/ /\ pc = [p \in {1} |-> "haveToken"]
          /\ req \in [{1} -> IssueBodies]
          /\ paxRows = [p \in {1} |-> [i \in 1..Len(req[p].passengers) |-> RowId(p, i)]]
    /\ LET t == IF useMock THEN MockToken
                ELSE Token(LoginTokenId(1), LongLife, LoginTokenId(1))
       IN /\ cachedToken = IF useMock THEN {}
                           ELSE {TokenCache(t, safeExpiresAt(t.expiration), NoCookie)}
          /\ tokenResult = [p \in {1} |->
                 [kind |-> "token", token |-> t, at |-> 0,
                  via |-> IF useMock THEN "mock" ELSE "login"]]

NextClients ==
    \/ \E p \in Procs : quoteProducts(p)
    \/ \E p \in Procs : productsResponse(p)
    \/ \E p \in Procs : issueVouchers(p)
    \/ \E p \in Procs : vouchersResponse(p)

SpecClients == InitClients /\ [][NextClients]_vars

(***************************************************************************)
(* Properties                                                              *)
(***************************************************************************)

\* the provider charged the card and answered with vouchers
ChargeSucceeded(p) == charged[p] /\ resp[p].kind = "ok"

DbErrors == {"PrismaClientError", "PrismaClientKnownRequestError"}

\* the charge of request p succeeded and a Policy insert or the commit failed
PostChargePersistenceFailure(p) ==
    /\ pc[p] = "done"
    /\ ChargeSucceeded(p)
    /\ result[p].kind = "error"
    /\ result[p].cls \in DbErrors

\* request p failed without the provider ever answering its issuance call
PreChargeFailure(p) ==
    /\ pc[p] = "done"
    /\ result[p].kind = "error"
    /\ resp[p].kind = "none"

\* C1: when the issuance call has succeeded and a Policy insert or the commit
\* fails, the caller gets an error of a class that no other failure has, and
\* never a generic 500
C1_PostChargeFailureIsDistinct ==
    \A p \in Procs :
        PostChargePersistenceFailure(p) =>
            /\ result[p].statusCode # 500
            /\ \A q \in Procs : PreChargeFailure(q) => result[q].cls # result[p].cls

\* the voucher codes the provider answered request p with
ReturnedCodes(p) == {resp[p].vouchers[i] : i \in DOMAIN resp[p].vouchers}

\* C2: when the issuance call has succeeded and a Policy insert or the commit
\* fails, a log record holding the voucher group and every voucher code has
\* been written by the time the error reaches the caller
C2_RecoveryPayloadLogged ==
    \A p \in Procs :
        PostChargePersistenceFailure(p) =>
            \E rec \in log[p] :
                /\ resp[p].voucherGroup \in rec.groups
                /\ ReturnedCodes(p) \subseteq rec.codes

\* the committed snapshot rows of request p
SnapshotOf(p) == {q \in quotes : q.id = QuoteId(p)}

IsAuditRow(q) == q.status = "issued" /\ q.expiresAt = q.createdAt + QuoteTtl

\* the issuance call of request p ended in an error
ChargeFailed(p) == resp[p].kind \in {"network", "invalid", "envelope"}

\* request p went through issuePolicy as far as the charge call, and has ended
Attempted(p) == pc[p] = "done" /\ (ChargeFailed(p) \/ resp[p].kind = "ok")

RowsOf(p) ==
    SnapshotOf(p) \cup {r \in passengers : r.by = p}
    \cup {r \in policies : r.quoteId = QuoteId(p)}

\* C4: a failing step of issuePolicy changes none of the tables Quote,
\* Passenger and Policy, and no committed row holds a write of a failed call
C4_FailedCallRollsBack ==
    [][\A p \in Procs :
          result'[p].kind = "error" =>
              /\ RowsOf(p)' = {}
              /\ result[p].kind # "error" => UNCHANGED dbVars]_vars

\* a request has failed after its charge, with its snapshot, passenger and
\* policy writes behind it, next to the committed rows of another request
C4_Witness ==
    \E p, q \in Procs :
        /\ PostChargePersistenceFailure(p)
        /\ resp[p].vouchers # <<>>
        /\ result[q].kind = "ok"
        /\ passengers # {} /\ policies # {}

\* the committed Policy rows of request p
PoliciesOf(p) == {r \in policies : r.quoteId = QuoteId(p)}

\* C5: after an issuePolicy call whose charge succeeded and that committed,
\* there are as many Policy rows of the call as vouchers returned and as
\* input passengers, and the rows share one voucherGroup
C5_OnePolicyPerVoucherAndPassenger ==
    \A p \in Procs :
        (result[p].kind = "ok" /\ resp[p].kind = "ok") =>
            /\ Cardinality(PoliciesOf(p)) = Len(resp[p].vouchers)
            /\ Cardinality(PoliciesOf(p)) = Len(req[p].passengers)
            /\ \A r1, r2 \in PoliciesOf(p) : r1.voucherGroup = r2.voucherGroup

\* C6: a token that getValidToken returns from the cache, a refresh or a
\* login has at least the safety margin of provider-stated validity left at
\* the moment it is returned
C6_ReturnedTokenHasSafetyMargin ==
    \A p \in Procs :
        (tokenResult[p].kind = "token" /\ tokenResult[p].via # "mock") =>
            tokenResult[p].token.expiration - tokenResult[p].at >= SafetyMargin

\* the phone numbers request p gives for the pair (email, documentNumber)
NamedPhones(p, email, documentNumber) ==
    {req[p].passengers[i].phone :
        i \in {j \in DOMAIN req[p].passengers :
                  /\ req[p].passengers[j].email = email
                  /\ req[p].passengers[j].documentNumber = documentNumber}}

\* issuance q began after issuance p had committed
Successive(p, q) ==
    \E sq \in SnapshotOf(q) : QuoteId(p) \in sq.after

\* C7: two successive successful issuances that name the same (email,
\* documentNumber) with different phone numbers leave exactly one Passenger
\* row for the pair, holding the phone number of the later issuance
C7_UpsertIdempotentOnPair ==
    \A p, q \in Procs : \A email \in Emails, documentNumber \in DocNumbers :
        LET first == NamedPhones(p, email, documentNumber)
            later == NamedPhones(q, email, documentNumber)
            rows == {r \in passengers : /\ r.email = email
                                        /\ r.documentNumber = documentNumber}
        IN (/\ result[p].kind = "ok" /\ result[q].kind = "ok"
            /\ Successive(p, q)
            /\ first # {} /\ later # {} /\ first \cap later = {})
           => /\ Cardinality(rows) = 1
              /\ \A r \in rows : r.phone \in later

\* the snapshots that exist, have the id request p asks for, and are not its
\* user's
ForeignQuotes(p) ==
    {q \in findUnique(req[p].quoteId) : q.userId # user[p]}

\* C8: getQuote for an existing snapshot of another user ends in
\* ForbiddenError (403) and hands out no snapshot, whatever the expiry,
\* status and contents of the snapshot
C8_NonOwnerForbidden ==
    [][\A p \in Procs :
          (pc[p] = "readingQuote" /\ pc'[p] = "done" /\ ForeignQuotes(p) # {}) =>
              /\ result'[p].kind = "error"
              /\ result'[p].cls = "ForbiddenError"
              /\ result'[p].statusCode = 403]_vars

\* a user was refused an expired, already issued snapshot of another user
C8_Witness ==
    \E p \in Procs :
        /\ pc[p] = "done" /\ req[p].op = "get"
        /\ result[p].kind = "error" /\ result[p].cls = "ForbiddenError"
        /\ \E q \in ForeignQuotes(p) : q.expiresAt < now /\ q.status = "issued"

\* s is some text between three opening and three closing braces
Wrapped(s) ==
    /\ Len(s) >= 6
    /\ \A i \in 1..3 : s[i] = "{" /\ s[Len(s) + 1 - i] = "}"

\* C9: an issuance request whose cardNumber or cvv is not wrapped in triple
\* braces ends in a validation error (400) that names the field, and no
\* request has gone out to the provider for it
C9_UnwrappedCardRejectedBeforeNetwork ==
    \A p \in Procs :
        LET pd == req[p].paymentDetails
        IN (req[p] # NoBody /\ (~Wrapped(pd.cardNumber) \/ ~Wrapped(pd.cvv))) =>
            /\ pc[p] = "done"
            /\ result[p].kind = "error"
            /\ result[p].cls = "BadRequestError"
            /\ result[p].statusCode = 400
            /\ ~Wrapped(pd.cardNumber) => "paymentDetails.cardNumber" \in result[p].issues
            /\ ~Wrapped(pd.cvv) => "paymentDetails.cvv" \in result[p].issues
            /\ netCalls[p] = 0

\* a request with a card number in double braces was rejected while another
\* request has reached the provider
C9_Witness ==
    \E p, q \in Procs :
        /\ pc[p] = "done"
        /\ req[p].paymentDetails.cardNumber = DoubleBrace
        /\ result[p].cls = "BadRequestError"
        /\ netCalls[p] = 0
        /\ netCalls[q] > 0

\* C10: when the issuance client fails (error envelope, invalid response,
\* network error), the provider has charged nothing for that request
C10_ClientFailureMeansNoCharge ==
    \A p \in Procs : ChargeFailed(p) => ~charged[p]

\* the charge call of request p has been started and the request is running
ChargeStarted(p) == pc[p] \in {"charging", "creatingPolicies", "committing"}

\* every input passenger of request p has its row, as the transaction of p
\* sees the table
UpsertsDone(p) ==
    /\ Len(paxRows[p]) = Len(req[p].passengers)
    /\ \A i \in DOMAIN paxRows[p] :
          \E r \in PassengerView(p) :
              /\ r.id = paxRows[p][i]
              /\ r.email = req[p].passengers[i].email
              /\ r.documentNumber = req[p].passengers[i].documentNumber

\* the Policy rows request p has written, committed or not
WrittenPolicies(p) == tx[p].policies \cup PoliciesOf(p)

\* C11: in one issuePolicy call every passenger upsert is done before the
\* charge call starts, and a Policy row is written only after the charge call
\* has succeeded, for a voucher that call returned
C11_UpsertThenChargeThenPolicy ==
    \A p \in Procs :
        /\ ChargeStarted(p) => UpsertsDone(p)
        /\ WrittenPolicies(p) # {} => resp[p].kind = "ok"
        /\ \A r \in WrittenPolicies(p) :
              \E i \in DOMAIN resp[p].vouchers :
                  r.voucherCode = toString(resp[p].vouchers[i])

\* one request waits for the charge with its new passenger row written, and
\* another one has written its Policy rows after a charge
C11_Witness ==
    \E p, q \in Procs :
        /\ pc[p] = "charging" /\ tx[p].created # {}
        /\ charged[q] /\ tx[q].policies # {}

\* the charge request of request p has gone out, or the request is over
ChargeSentOrOver(p) == ChargeStarted(p) \/ pc[p] = "done"

\* C12: one issuePolicy call sends the charge request at most once: once it
\* has gone out, whatever fails afterwards, the call neither goes back to
\* sending it nor sends anything else to the provider
C12_ChargeSentAtMostOnce ==
    [][\A p \in Procs :
          ChargeSentOrOver(p) =>
              /\ ChargeSentOrOver(p)'
              /\ pc[p] # "charging" => pc'[p] # "charging"
              /\ netCalls'[p] = netCalls[p]]_vars

\* the charge call of one request failed after it was sent, and another
\* request failed to persist its policies after the charge
C12_Witness ==
    \E p, q \in Procs :
        /\ pc[p] = "done" /\ ChargeFailed(p) /\ netCalls[p] > 0
        /\ PostChargePersistenceFailure(q)

\* the cache holds a token that is good for further use
CacheValid == \E c \in cachedToken : c.expiresAt > now

\* C13: when getValidToken calls run concurrently on a stale cache, the
\* failed attempt of one call does not erase the token another call has
\* obtained meanwhile: no step of a call empties a cache whose token has
\* been written since that call found the cache stale, i.e. is still valid
C13_FailedAttemptKeepsObtainedToken ==
    [][\A p \in Procs :
          (pc[p] = "refreshing" /\ pc'[p] # "refreshing" /\ CacheValid) =>
              cachedToken' # {}]_vars

\* the getValidToken call of p has had a refresh fail and has gone on to log in
\* (its second request to the provider)
RefreshFailed(p) == netCalls[p] = 2 /\ pc[p] \in {"loggingIn", "haveToken", "tokenFailed"}

\* C14: when the refresh of a stale token fails, getValidToken empties the
\* cache, throws nothing and sends a credentials login; when that login
\* succeeds, its token is cached with its own expiry and refresh handle and
\* is the token returned
C14_RefreshFailureFallsBackToLogin ==
    [][\A p \in Procs :
          /\ (pc[p] = "refreshing" /\ pc'[p] \notin {"refreshing", "haveToken"}) =>
                /\ pc'[p] = "loggingIn"
                /\ cachedToken' = {}
                /\ tokenResult'[p] = tokenResult[p]
                /\ netCalls'[p] = netCalls[p] + 1
          /\ (RefreshFailed(p) /\ pc[p] = "loggingIn" /\ pc'[p] = "haveToken") =>
                /\ tokenResult'[p].kind = "token"
                /\ tokenResult'[p].via = "login"
                /\ tokenResult'[p].token.id = LoginTokenId(p)
                /\ cachedToken' =
                      {TokenCache(tokenResult'[p].token,
                                  safeExpiresAt(tokenResult'[p].token.expiration),
                                  c) : c \in {x \in {NoCookie, LoginTokenId(p)} :
                                                 \E y \in cachedToken' : y.refreshCookie = x}}
          /\ (RefreshFailed(p) /\ tokenResult'[p].kind = "token") =>
                tokenResult'[p].via = "login"]_vars

\* a call whose refresh failed has logged in, and the cache holds the token
\* it returned together with the new refresh handle
C14_Witness ==
    \E p \in Procs :
        /\ RefreshFailed(p)
        /\ tokenResult[p].kind = "token"
        /\ \E c \in cachedToken :
              /\ c.token = tokenResult[p].token
              /\ c.refreshCookie = LoginTokenId(p)

\* C15: when the credentials login is rejected or the provider cannot be
\* reached, getValidToken throws and returns no token; the calling issuance
\* ends with a 5xx error without an issuance call being made
C15_LoginFailureIsFatal ==
    [][\A p \in Procs :
          /\ (pc[p] = "loggingIn" /\ pc'[p] \notin {"loggingIn", "haveToken"}) =>
                /\ pc'[p] = "tokenFailed"
                /\ tokenResult'[p].kind = "error"
          /\ pc[p] = "tokenFailed" =>
                /\ pc'[p] \in {"tokenFailed", "done"}
                /\ netCalls'[p] = netCalls[p]
                /\ resp'[p].kind = "none"
                /\ ~charged'[p]
                /\ pc'[p] = "done" =>
                      /\ result'[p].kind = "error"
                      /\ result'[p].statusCode \in 500..599
                      /\ RowsOf(p)' = {}]_vars

\* an issuance has ended in the error of a failed login, after it had sent
\* the login and before any issuance call
C15_Witness ==
    \E p \in Procs :
        /\ pc[p] = "done"
        /\ result[p].kind = "error" /\ result[p].cls = "InternalServerError"
        /\ netCalls[p] > 0
        /\ resp[p].kind = "none"

\* the save request of p lacks its product or its rate
SelectionMissing(params) == params.productCode = <<>> \/ params.rateCode = <<>>

OwnQuotes(p) ==
    {q \in findUnique(req[p].quoteId) : q.userId = user[p]}

\* C17: getQuote hands its owner the stored snapshot as it is, expired or
\* already issued as it may be; it fails with NotFound (404) when no snapshot
\* has the id; and it changes no stored row
C17_OwnerReadsSnapshotAsIs ==
    [][\A p \in Procs :
          /\ (pc[p] = "quoteIdle" /\ pc'[p] = "readingQuote") => UNCHANGED dbVars
          /\ (pc[p] = "readingQuote" /\ pc'[p] # "readingQuote") =>
                /\ UNCHANGED dbVars
                /\ \A q \in OwnQuotes(p) :
                      /\ result'[p].kind = "quote"
                      /\ result'[p].data = q
                /\ findUnique(req[p].quoteId) = {} =>
                      /\ result'[p].kind = "error"
                      /\ result'[p].cls = "NotFoundError"
                      /\ result'[p].statusCode = 404]_vars

\* an owner has been handed an expired, already issued snapshot, and a read
\* of an id that is not in the store has failed
C17_Witness ==
    \E p, q \in Procs :
        /\ pc[p] = "done" /\ result[p].kind = "quote"
        /\ result[p].data.status = "issued" /\ result[p].data.expiresAt < now
        /\ result[p].data \in quotes
        /\ pc[q] = "done" /\ req[q].op = "get"
        /\ result[q].kind = "error" /\ result[q].cls = "NotFoundError"

\* the mapping of provider statuses as C18 states it
StatedStatus(st) ==
    CASE st = 400 -> 400
      [] st \in {401, 403} -> 502
      [] st = 429 -> 503
      [] st \in {500, 502, 503, 504} -> 502
      [] OTHER -> 502

\* the mapping with the two statuses the code maps besides
AmendedStatus(st) ==
    CASE st = 404 -> 404
      [] st = 422 -> 400
      [] OTHER -> StatedStatus(st)

\* the translated error of p carries trace id, error code and message of the
\* envelope
CarriesEnvelope(p) ==
    /\ result[p].err.traceId = req[p].traceId
    /\ result[p].err.errorCode = req[p].errorCode
    /\ req[p].errorMessage # Absent => result[p].err.message = req[p].errorMessage

\* C18, as stated: the local status is 400 for 400, 502 for 401 and 403, 503
\* for 429, 502 for 500/502/503/504 and 502 for an absent or any other
\* status, and the error carries the envelope's trace id, code and message
C18_StatusMappingAsStated ==
    \A p \in Procs :
        result[p].kind = "thrown" =>
            /\ result[p].err.statusCode = StatedStatus(req[p].status)
            /\ CarriesEnvelope(p)

\* C18, amended: as stated, except that 404 gives 404 and 422 gives 400
C18_StatusMapping ==
    \A p \in Procs :
        result[p].kind = "thrown" =>
            /\ result[p].err.cls = "AssistcardApiError"
            /\ result[p].err.statusCode = AmendedStatus(req[p].status)
            /\ CarriesEnvelope(p)

\* a 422 envelope with trace id, code and message has been translated
C18_Witness ==
    \E p \in Procs :
        /\ result[p].kind = "thrown"
        /\ req[p].status = 422 /\ result[p].err.statusCode = 400
        /\ req[p].errorCode # Absent /\ req[p].errorMessage # Absent

\* p sends a request to the provider's quote or issuance endpoint in this step
SendsClientRequest(p) ==
    /\ pc[p] \in {"callQuote", "haveToken"}
    /\ netCalls'[p] > netCalls[p]

\* the client called by p ends this step with a typed local error and no data
TypedErrorNoData(p) ==
    /\ pc'[p] = "done"
    /\ IF pc[p] = "quoting"
       THEN /\ result'[p].kind = "thrown"
            /\ result'[p].err.cls = "AssistcardApiError"
       ELSE /\ result'[p].kind = "error"
            /\ result'[p].cls = "AssistcardApiError"

\* the real client called by p hands a payload to its caller in this step
HandsPayload(p) ==
    /\ ~useMock
    /\ \/ pc[p] = "quoting" /\ result'[p].kind = "products"
       \/ pc[p] = "charging" /\ pc'[p] = "creatingPolicies"

\* the answer that arrived for p in this step passed the response schema
AnswerPassedSchema(p) ==
    IF pc[p] = "quoting"
    THEN /\ resp'[p].kind = "answer"
         /\ quoteProductResponseSchema(resp'[p].body)
    ELSE resp'[p].kind = "ok"

\* the answer that arrived for p in this step is malformed
AnswerMalformed(p) ==
    /\ ~useMock
    /\ \/ /\ pc[p] = "quoting"
          /\ resp'[p].kind = "answer"
          /\ ~quoteProductResponseSchema(resp'[p].body)
       \/ /\ pc[p] = "charging"
          /\ resp'[p].kind = "invalid"

\* C19: the Quote Client and the Issuance Client send a request only if it
\* passed the request schema (the mock sends nothing), hand a payload to the
\* caller only if the provider's answer passed the response schema, and end
\* with a typed local error, never with data, on a malformed answer
C19_ClientsValidateRequestAndResponse ==
    [][\A p \in Procs :
          /\ SendsClientRequest(p) =>
                /\ ~useMock
                /\ pc[p] = "callQuote" => quoteProductRequestSchema(req'[p]) = {}
                /\ pc[p] = "haveToken" => requestBodySchema(req[p]) = {}
          /\ HandsPayload(p) => AnswerPassedSchema(p)
          /\ AnswerMalformed(p) => TypedErrorNoData(p)]_vars

\* the Quote Client has sent a request that passed the request schema, got an
\* answer that fails the response schema, and ended with the typed error
C19_Witness ==
    \E p \in Procs :
        /\ ~useMock /\ pc[p] = "done" /\ netCalls[p] = 1
        /\ resp[p].kind = "answer"
        /\ quoteProductRequestSchema(req[p]) = {}
        /\ ~quoteProductResponseSchema(resp[p].body)
        /\ result[p].kind = "thrown"
        /\ result[p].err.cls = "AssistcardApiError"

\* the calendar dates of the years the model's dates lie in
DaysInMonth(y, m) ==
    IF m = 2 THEN (IF y % 4 = 0 /\ (y % 100 # 0 \/ y % 400 = 0) THEN 29 ELSE 28)
    ELSE IF m \in {4, 6, 9, 11} THEN 30 ELSE 31
CalendarDates ==
    UNION {{DateString(y, m, d) : d \in 1..DaysInMonth(y, m)} :
              y \in {2024, 2025}, m \in 1..12}

DigitOrSlash(ch) == IF ch = "/" THEN 0 ELSE DigitValue(ch)

\* YYYY/MM/DD strings of equal length compare as their dates do
RECURSIVE DateBefore(_, _)
DateBefore(a, b) ==
    IF a = <<>> THEN FALSE
    ELSE \/ DigitOrSlash(Head(a)) < DigitOrSlash(Head(b))
         \/ Head(a) = Head(b) /\ DateBefore(Tail(a), Tail(b))

\* the number of calendar days from begin to end, both counted
InclusiveDays(begin, end) ==
    Cardinality({c \in CalendarDates : ~DateBefore(c, begin) /\ ~DateBefore(end, c)})

\* the mock has answered a request of p whose beginDate is earlier than its
\* endDate
MockQuoted(p) ==
    /\ useMock /\ result[p].kind = "products"
    /\ DateBefore(req[p].beginDate, req[p].endDate)

\* C20: a quote request with beginDate earlier than endDate gets a product
\* list in which every product has total <= totalOriginal, with or without
\* promotional code, priced on the inclusive day count (15 days for
\* 2025/02/01 to 2025/02/15)
C20_QuotePricedOnInclusiveDays ==
    \A p \in Procs :
        MockQuoted(p) =>
            LET products == result[p].data
                days == InclusiveDays(req[p].beginDate, req[p].endDate)
            IN /\ Len(products) > 0
               /\ \A i \in 1..Len(products) :
                     products[i].amount.total <= products[i].amount.totalOriginal
               /\ products[1].amount.totalOriginal =
                     days * Len(req[p].passengers) * basePricePerDay * 100
               /\ (/\ req[p].beginDate = DateString(2025, 2, 1)
                   /\ req[p].endDate = DateString(2025, 2, 15)) => days = 15

\* the scenario: one passenger, 2025/02/01 to 2025/02/15, with a promotional
\* code, quoted by the mock below the original total
C20_Witness ==
    \E p \in Procs :
        /\ MockQuoted(p)
        /\ req[p].beginDate = DateString(2025, 2, 1)
        /\ req[p].endDate = DateString(2025, 2, 15)
        /\ Len(req[p].passengers) = 1
        /\ req[p].promotionalCode # Absent
        /\ result[p].data[1].amount.total < result[p].data[1].amount.totalOriginal

\* C21: when the cache holds a token whose stored expiry is later than now,
\* getValidToken returns exactly that token at once, sends no login or
\* refresh request and leaves the cache as it is
C21_ValidCacheIsReturnedUntouched ==
    [][\A p \in Procs :
          (pc[p] = "callToken" /\ pc'[p] # "callToken" /\ ~useMock /\ CacheValid) =>
              /\ pc'[p] = "haveToken"
              /\ tokenResult'[p].kind = "token"
              /\ \A c \in cachedToken : tokenResult'[p].token = c.token
              /\ netCalls' = netCalls
              /\ cachedToken' = cachedToken]_vars

\* a call has been answered from the cache, which holds the returned token,
\* without a request to the provider
C21_Witness ==
    \E p \in Procs :
        /\ tokenResult[p].kind = "token"
        /\ tokenResult[p].via = "cache"
        /\ netCalls[p] = 0
        /\ \E c \in cachedToken : c.token = tokenResult[p].token

\* C22: the cached token and the cached refresh handle always belong to the
\* same login session: after a successful refresh the cache holds the
\* refreshed token with the handle that refresh was made with, in every
\* interleaving of concurrent getValidToken calls
C22_CachedTokenAndHandleSameSession ==
    \A c \in cachedToken :
        c.refreshCookie # NoCookie => c.token.session = c.refreshCookie

\* the payment confirmation fields of a Policy row
PaymentFieldsOf(r) ==
    <<r.paymentMethod, r.cardBrand, r.paymentReference, r.installments,
      r.paymentCurrencyLocal, r.paymentTotalLocal>>

\* the issuance of p has committed
Committed(p) == pc[p] = "done" /\ result[p].kind = "ok" /\ resp[p].kind = "ok"

\* C23: for each index i the Policy row made from voucher i names the
\* Passenger row upserted from input passenger i, the snapshot created by the
\* same call and the issuing user, and all Policy rows of one issuance carry
\* the same payment confirmation fields
C23_PolicyRowsAlignedWithPassengers ==
    \A p \in Procs :
        Committed(p) =>
            /\ \A i \in DOMAIN resp[p].vouchers :
                  \E r \in policies :
                     /\ r.id = RowId(p, i)
                     /\ r.voucherCode = toString(resp[p].vouchers[i])
                     /\ r.userId = user[p]
                     /\ r.quoteId = QuoteId(p)
                     /\ \E q \in quotes : q.id = r.quoteId /\ q.userId = user[p]
                     /\ \E x \in passengers :
                           /\ x.id = r.passengerId
                           /\ x.email = req[p].passengers[i].email
                           /\ x.documentNumber = req[p].passengers[i].documentNumber
                           /\ x.id = paxRows[p][i]
            /\ \A r1, r2 \in PoliciesOf(p) :
                  /\ PaymentFieldsOf(r1) = PaymentFieldsOf(r2)
                  /\ r1.paymentReference = resp[p].paymentDetails.referenceNumber

\* an issuance for two passengers with different documents has committed two
\* Policy rows that name two Passenger rows
C23_Witness ==
    \E p \in Procs :
        /\ Committed(p)
        /\ Len(resp[p].vouchers) = 2
        /\ req[p].passengers[1].documentNumber # req[p].passengers[2].documentNumber
        /\ \E r1, r2 \in PoliciesOf(p) : r1.passengerId # r2.passengerId

WritesOf(p) ==
    {q \in quotes : q.id = QuoteId(p)} \cup {r \in passengers : r.by = p}
    \cup PoliciesOf(p)

\* the ids of the Passenger rows that open transactions other than p's hold
UncommittedPassengerIds(p) ==
    UNION {{r.id : r \in tx[q].created} : q \in Procs \ {p}}

\* C25: the writes of an issuance are in no table before it commits, and
\* never if it fails: a getQuote that asks for its snapshot meanwhile ends in
\* NotFound, the passenger lookups of another issuance find committed rows
\* only, and once it has committed all Policy rows of its vouchers are there
C25_PartialWritesInvisible ==
    /\ [](\A p \in StoreIssuers :
             IF Committed(p)
             THEN Cardinality(PoliciesOf(p)) = Len(resp[p].vouchers)
             ELSE WritesOf(p) = {})
    /\ [][\A c \in Procs :
             /\ (pc[c] = "readingQuote" /\ pc'[c] = "done") =>
                   /\ result'[c].kind = "quote" => result'[c].data \in quotes
                   /\ \A p \in StoreIssuers :
                         (req[c].quoteId = QuoteId(p) /\ ~Committed(p)) =>
                             /\ result'[c].kind = "error"
                             /\ result'[c].cls = "NotFoundError"
             /\ (pc[c] = "findingPassengers" /\ pc'[c] = "upsertingPassengers") =>
                   \A i \in DOMAIN found'[c] :
                      /\ found'[c][i] \notin UncommittedPassengerIds(c)
                      /\ found'[c][i] # NoRow =>
                            \E r \in passengers : r.id = found'[c][i]]_vars

\* while one issuance waits for its charge with its snapshot and a new
\* passenger written, a getQuote for that snapshot has ended in NotFound and
\* the passenger lookup of the other issuance for the same email and
\* document has found no row
C25_Witness ==
    \E p, q \in StoreIssuers, c \in StoreCallers :
        /\ pc[p] = "charging" /\ tx[p].quotes # {}
        /\ pc[c] = "done" /\ req[c].op = "get" /\ req[c].quoteId = QuoteId(p)
        /\ result[c].kind = "error" /\ result[c].cls = "NotFoundError"
        /\ pc[q] = "upsertingPassengers" /\ found[q] = <<NoRow>>
        /\ \E r \in tx[p].created :
              /\ r.email = req[q].passengers[1].email
              /\ r.documentNumber = req[q].passengers[1].documentNumber

\* the voucher codes the provider returned to issuance p, as stored
StoredCodes(p) == {toString(c) : c \in ReturnedCodes(p)}

\* the vouchers returned to p repeat a code among themselves or a code that
\* a Policy row of another issuance has
RepeatsVoucherCode(p) ==
    \/ Cardinality(StoredCodes(p)) < Len(resp[p].vouchers)
    \/ \E r \in policies : r.quoteId # QuoteId(p) /\ r.voucherCode \in StoredCodes(p)

\* C26: no two stored Policy rows have the same voucherCode, and an issuance
\* whose returned vouchers repeat a code, stored already or within the
\* response, has no Policy row in the store
C26_VoucherCodesUnique ==
    /\ \A r1, r2 \in policies : r1.voucherCode = r2.voucherCode => r1 = r2
    /\ \A p \in Procs :
          (resp[p].kind = "ok" /\ RepeatsVoucherCode(p)) => PoliciesOf(p) = {}

\* one issuance has committed a Policy row; another, that got the same
\* voucher code from the provider twice in one response, has ended in an
\* error after its charge and has no Policy row
C26_Witness ==
    \E p, q \in Procs :
        /\ Committed(p) /\ PoliciesOf(p) # {}
        /\ pc[q] = "done" /\ result[q].kind = "error" /\ resp[q].kind = "ok"
        /\ Len(resp[q].vouchers) = 2
        /\ resp[q].vouchers[1] = resp[q].vouchers[2]
        /\ StoredCodes(q) \subseteq VoucherCodesOf(PoliciesOf(p))
        /\ PoliciesOf(q) = {}

\* C27: table Passenger holds at most one row per (email, documentNumber)
C27_OnePassengerPerEmailAndDocument ==
    \A r1, r2 \in passengers :
        (r1.email = r2.email /\ r1.documentNumber = r2.documentNumber) => r1 = r2

\* C28: every stored snapshot with status 'issued' is named by the quoteId of
\* at least one stored Policy row
C28_IssuedSnapshotHasPolicies ==
    \A q \in quotes :
        q.status = "issued" => \E r \in policies : r.quoteId = q.id

\* the fields of a Passenger row that tx.passenger.update is not given
KeptFields(r) == <<r.id, r.email, r.documentNumber, r.firstName, r.createdById>>

C30_LoginResolvesAfterFreshCheck ==
    [][\A p \in Procs :
          (/\ pc[p] \in {"loginAnswered", "sessionAnswered"}
           /\ pc'[p] = "done"
           /\ req[p].op \in {"signIn", "signUp"}
           /\ result'[p] = Resolved) =>
              /\ store'.isAuthenticating = FALSE
              /\ p \in store'.checkAfter]_vars

====
